---- MODULE Spec2Model ----
(***************************************************************************)
(* Signal lifecycle and trade execution of the Telegram-to-Binance relay.  *)
(*                                                                         *)
(* Number representation.  The program computes with float64; the model    *)
(* uses fixed point:                                                       *)
(*   - prices (EntryPrice, TP1..TP3, SL, HighPrice, ...) are integers in   *)
(*     millionths (the precision of roundToSixDecimal), so 100.75 is       *)
(*     100750000;                                                          *)
(*   - percentages (TP1Percentage, TP1ClosePct, ...) are integers in       *)
(*     hundredths of a percent, so 0.75 % is 75 and 60 % is 6000;          *)
(*   - MarketPriceTolerance, a fraction, is an integer in ten-thousandths, *)
(*     so 0.02 is 200;                                                     *)
(*   - AmountUSDT is an integer in hundredths of a USDT.                   *)
(* A text message is a string; the parsers are tables over the texts the   *)
(* model sends.                                                            *)
(***************************************************************************)
EXTENDS Integers, Sequences, FiniteSets, TLC

VARIABLES
    signalStore,    \* SignalStore.signals: sanitized id -> AlertMessage
    messageStore,   \* MessageStore.messages: sanitized id -> chat message id
    editingUsers,   \* EditingUsers.users: chat id -> EditingState
    userSettings,   \* UserSettingsStore.settings: chat id -> UserSettings
    exchange,       \* the exchange's side: effective margin type and leverage
    monitors,       \* number of monitorOrdersViaWebSocket goroutines started
    tracked,        \* signal ids stored by trackSignal
    last,           \* what the handler that ran last did (outputs, calls)
    mu,             \* BinanceClient.mu: the goroutine holding it, or ""
    task,           \* goroutine -> where it is in the handler it runs
    wire,           \* the exchange calls in the order the exchange got them
    seen,           \* the settings record a concurrent reader last read
    stream,         \* the process and its fill monitors: alive, monitors
                    \* reading the user data stream, monitors whose
                    \* connection is lost, "filled" messages per order
    settingsLock,   \* UserSettingsStore's RWMutex (readers, writer, callers
                    \* waiting in Lock), the identity of the record kept in
                    \* the map and of the record each Get returned
    telegram        \* bot, updatesChan, listenerShutdown, the update
                    \* channels and listener goroutines created so far, and
                    \* the re-initialisations under way

\* What the steps that run a handler from its first to its last statement
\* leave alone.
concurrent == <<mu, task, wire, seen, stream, settingsLock, telegram>>

vars == <<signalStore, messageStore, editingUsers, userSettings, exchange,
          monitors, tracked, last, mu, task, wire, seen, stream,
          settingsLock, telegram>>

----------------------------------------------------------------------------
(* Bounds and input sets *)

\* Cap on the number of fill monitors the model lets the program start.
MaxMonitors == 2

\* Cap on the number of handlers a goroutine runs step by step.
MaxRuns == 1

\* GlobalConfig.TelegramChatID, the operator's chat.
ChatID == 1

\* Identifiers as they arrive in alerts, and the payloads callbacks carry.
RawSignalIDs == {"sig1", "sig-1"}
CallbackIDs == {"sig1", "ghost"}

\* One million: the fixed-point unit of a price.
Price(x) == x * 1000000

Abs(x) == IF x < 0 THEN -x ELSE x

\* floor(a * b / 10000) without leaving 32-bit range (a >= 0, b >= 0).
MulDiv10000(a, b) ==
    (a \div 10000) * b + (((a % 10000) * b) \div 10000)

\* round(a * b / 10000), half away from zero (a >= 0, b >= 0).
MulRound10000(a, b) ==
    (a \div 10000) * b + (((a % 10000) * b + 5000) \div 10000)

\* The float64 value NaN, which strconv.ParseFloat returns for the text
\* "NaN". It is outside the range of every number of the model. In the
\* inputs checked here it is typed only as a close weight, so only the
\* arithmetic of the close weights is written with the operators below.
NaN == -2000000000

IsNaN(x) == x = NaN

\* float64 arithmetic and comparison: NaN propagates through + and -, and
\* every comparison with NaN is false.
FAdd(a, b) == IF a = NaN \/ b = NaN THEN NaN ELSE a + b
FSub(a, b) == IF a = NaN \/ b = NaN THEN NaN ELSE a - b
FGt(a, b) == a # NaN /\ b # NaN /\ a > b
FGe(a, b) == a # NaN /\ b # NaN /\ a >= b
FLe(a, b) == a # NaN /\ b # NaN /\ a <= b
FLt(a, b) == a # NaN /\ b # NaN /\ a < b

----------------------------------------------------------------------------
(* Parsers *)

\* strconv.ParseFloat(text, 64): ok and the value in millionths.
ParseFloat(text) ==
    CASE text = "-1"  -> [ok |-> TRUE, val |-> Price(-1)]
      [] text = "0"   -> [ok |-> TRUE, val |-> Price(0)]
      [] text = "2"   -> [ok |-> TRUE, val |-> Price(2)]
      [] text = "50"  -> [ok |-> TRUE, val |-> Price(50)]
      [] text = "70"  -> [ok |-> TRUE, val |-> Price(70)]
      [] text = "100" -> [ok |-> TRUE, val |-> Price(100)]
      [] text = "105" -> [ok |-> TRUE, val |-> Price(105)]
      [] text = "NaN" -> [ok |-> TRUE, val |-> NaN]
      [] OTHER        -> [ok |-> FALSE, val |-> 0]

\* strconv.Atoi(text)
Atoi(text) ==
    CASE text = "-1"  -> [ok |-> TRUE, val |-> -1]
      [] text = "0"   -> [ok |-> TRUE, val |-> 0]
      [] text = "2"   -> [ok |-> TRUE, val |-> 2]
      [] text = "50"  -> [ok |-> TRUE, val |-> 50]
      [] text = "70"  -> [ok |-> TRUE, val |-> 70]
      [] text = "100" -> [ok |-> TRUE, val |-> 100]
      [] text = "105" -> [ok |-> TRUE, val |-> 105]
      [] OTHER        -> [ok |-> FALSE, val |-> 0]

\* Every float is taken, whatever the range.
parseFloatAnyRange(text, min, max) == ParseFloat(text)

\* The closure parseFloat of handleNewSettingValue: a float within
\* [min, max] (both in whole units), else an error.
parseFloatRange(text, min, max) ==
    LET p == ParseFloat(text) IN
    \* val < min || val > max: false for NaN; p.val > max is compared in
    \* whole units to stay within 32 bits
    IF \/ ~p.ok
       \/ /\ ~IsNaN(p.val)
          /\ \/ p.val < Price(min)
             \/ p.val \div 1000000 > max
             \/ (p.val \div 1000000 = max /\ p.val % 1000000 > 0)
    THEN [ok |-> FALSE, val |-> 0]
    ELSE p

\* A parsed float as hundredths (of a percent, of a USDT).
Hundredths(val) == IF IsNaN(val) THEN NaN ELSE val \div 10000

\* sanitizeSignalID: every non-word character removed.
sanitizeSignalID(signalID) ==
    CASE signalID = "sig-1" -> "sig1"
      [] signalID = "!!!"   -> ""
      [] OTHER              -> signalID

----------------------------------------------------------------------------
(* UserSettingsStore *)

\* Only TP3 is dropped; TP2 keeps the weight the operator typed.
adjustWithoutTruncation(s) ==
    [s EXCEPT !.TP1Enabled = TRUE, !.TP2Enabled = TRUE,
              !.TP3ClosePct = 0, !.TP3Enabled = FALSE]

\* adjustTPClosePercentages: the close weights and the TP visibility.  The
\* three flags are first set to true; tp12 is TP1 + TP2.
adjustTPClosePercentages(s) ==
    LET tp3Of(remaining) == IF FLe(remaining, 0) THEN 0 ELSE remaining
        \* math.Max(0, 100 - (TP1 + TP2)) when the total exceeds 100; a
        \* total that is NaN does not exceed it
        tp3Within(tp12, tp3) ==
            IF FGt(FAdd(tp12, tp3), 10000)
            THEN (IF 10000 - tp12 > 0 THEN 10000 - tp12 ELSE 0)
            ELSE tp3
        withTP3(r, tp3) ==
            [r EXCEPT !.TP1Enabled = TRUE, !.TP3ClosePct = tp3,
                      !.TP2Enabled = FGt(r.TP2ClosePct, 0),
                      !.TP3Enabled = FGt(tp3, 0)]
    IN
    IF FGe(s.TP1ClosePct, 10000)
    THEN [s EXCEPT !.TP1Enabled = TRUE, !.TP1ClosePct = 10000,
                   !.TP2ClosePct = 0, !.TP3ClosePct = 0,
                   !.TP2Enabled = FALSE, !.TP3Enabled = FALSE]
    ELSE IF FGt(s.TP2ClosePct, FSub(10000, s.TP1ClosePct))
    THEN [s EXCEPT !.TP1Enabled = TRUE, !.TP2Enabled = TRUE,
                   !.TP2ClosePct = FSub(10000, s.TP1ClosePct),
                   !.TP3ClosePct = 0, !.TP3Enabled = FALSE]
    ELSE withTP3(s, tp3Within(FAdd(s.TP1ClosePct, s.TP2ClosePct),
                              tp3Of(FSub(FSub(10000, s.TP1ClosePct),
                                         s.TP2ClosePct))))

\* The record UserSettingsStore.Get builds when the user has none.
DefaultSettings ==
    adjustTPClosePercentages(
       [MarginMode                  |-> "Cross",
        Leverage                    |-> 5,
        AssetMode                   |-> "Multi",
        TradingMode                 |-> "Market",
        AmountUSDT                  |-> 10000,
        UseSL                       |-> FALSE,
        AutoCalculateTPs            |-> FALSE,
        TP1Percentage               |-> 75,
        TP2Percentage               |-> 150,
        TP3Percentage               |-> 200,
        ManualSLPercentage          |-> 100,
        AutoSLPercentage            |-> 100,
        AutoTPPercentage            |-> 100,
        MarketPriceTolerance        |-> 0,
        TP1ClosePct                 |-> 6000,
        TP2ClosePct                 |-> 2000,
        TP3ClosePct                 |-> 2000,
        TP1Enabled                  |-> TRUE,
        TP2Enabled                  |-> TRUE,
        TP3Enabled                  |-> TRUE,
        DynamicCalculationEnabled   |-> TRUE,
        EnableToleranceInMarketMode |-> TRUE])

\* UserSettingsStore.Get: the stored record, the default one stored first
\* when there is none.  UserSettingsGet is the record, StoreAfterGet the map.
StoreAfterGet(store, userID) ==
    IF userID \in DOMAIN store
    THEN store
    ELSE [u \in DOMAIN store \cup {userID} |->
            IF u = userID THEN DefaultSettings ELSE store[u]]

UserSettingsGet(store, userID) == StoreAfterGet(store, userID)[userID]

\* The record UserSettingsStore.Set stores for `settings`: the tolerance of
\* Market mode, each weight capped at 100, the weights scaled when their
\* total exceeds 100, the shares of TP2 and TP3, and the TP visibility.
NormalizeSettings(settings) ==
    LET market(s) == IF s.TradingMode = "Market"
                     THEN [s EXCEPT !.MarketPriceTolerance = 0]
                     ELSE s
        cap(x) == IF FGt(x, 10000) THEN 10000 ELSE x
        capped(s) == [s EXCEPT !.TP1ClosePct = cap(@),
                               !.TP2ClosePct = cap(@),
                               !.TP3ClosePct = cap(@)]
        \* total > 100: every weight times 100 / total
        scaledBy(s, total) ==
            IF FGt(total, 10000)
            THEN [s EXCEPT !.TP1ClosePct = (@ * 10000) \div total,
                           !.TP2ClosePct = (@ * 10000) \div total,
                           !.TP3ClosePct = (@ * 10000) \div total]
            ELSE s
        scaled(s) ==
            scaledBy(s, FAdd(FAdd(s.TP1ClosePct, s.TP2ClosePct),
                             s.TP3ClosePct))
        shares(s) ==
            IF FGe(s.TP1ClosePct, 10000)
            THEN [s EXCEPT !.TP1Enabled = TRUE, !.TP1ClosePct = 10000,
                           !.TP2ClosePct = 0, !.TP3ClosePct = 0,
                           !.TP2Enabled = FALSE, !.TP3Enabled = FALSE]
            ELSE IF FGt(s.TP2ClosePct, FSub(10000, s.TP1ClosePct))
            THEN [s EXCEPT !.TP1Enabled = TRUE, !.TP2Enabled = TRUE,
                           !.TP2ClosePct = FSub(10000, s.TP1ClosePct),
                           !.TP3ClosePct = 0, !.TP3Enabled = FALSE]
            ELSE IF FLe(FSub(FSub(10000, s.TP1ClosePct), s.TP2ClosePct), 0)
            THEN [s EXCEPT !.TP1Enabled = TRUE, !.TP2Enabled = TRUE,
                           !.TP3ClosePct = 0, !.TP3Enabled = FALSE]
            ELSE [s EXCEPT !.TP1Enabled = TRUE, !.TP2Enabled = TRUE,
                           !.TP3ClosePct = FSub(FSub(10000, s.TP1ClosePct),
                                                s.TP2ClosePct),
                           !.TP3Enabled = TRUE]
        visible(s) == [s EXCEPT !.TP2Enabled = FGt(s.TP2ClosePct, 0),
                                !.TP3Enabled = FGt(s.TP3ClosePct, 0)]
    IN visible(shares(scaled(capped(market(settings)))))

\* UserSettingsStore.Set
UserSettingsSet(store, userID, settings) ==
    [u \in DOMAIN store \cup {userID} |->
        IF u = userID THEN NormalizeSettings(settings) ELSE store[u]]

----------------------------------------------------------------------------
(* RecalculationEngine *)

\* entry * (1 + pct / 100) and entry * (1 - pct / 100), to the millionth
\* (roundToSixDecimal), for entry > 0.
Above(entry, pct) == entry + MulRound10000(entry, pct)
Below(entry, pct) == entry - MulRound10000(entry, pct)

\* TP1 is recomputed whether dynamic calculation is enabled or not.
recalculateAlways(signal, settings) ==
    [signal EXCEPT !.TP1 = Above(signal.EntryPrice, settings.TP1Percentage)]

\* recalculateTPAndSL: the signal with TP1..TP3 and SL recomputed.
recalculateTPAndSL(signal, settings) ==
    IF ~settings.DynamicCalculationEnabled THEN signal
    ELSE IF signal.EntryPrice <= 0 THEN signal
    ELSE
    LET e == signal.EntryPrice IN
    IF settings.AutoCalculateTPs
    THEN CASE signal.SignalType = "Buy" ->
                [signal EXCEPT
                   !.TP1 = Above(e, settings.AutoTPPercentage),
                   !.SL = IF settings.UseSL
                          THEN Below(e, settings.AutoSLPercentage) ELSE @]
           [] signal.SignalType = "Sell" ->
                [signal EXCEPT
                   !.TP1 = Below(e, settings.AutoTPPercentage),
                   !.SL = IF settings.UseSL
                          THEN Above(e, settings.AutoSLPercentage) ELSE @]
           [] OTHER -> signal
    ELSE CASE signal.SignalType = "Buy" ->
                [signal EXCEPT
                   !.TP1 = Above(e, settings.TP1Percentage),
                   !.TP2 = Above(e, settings.TP2Percentage),
                   !.TP3 = Above(e, settings.TP3Percentage),
                   !.SL = IF settings.UseSL
                          THEN Below(e, settings.ManualSLPercentage) ELSE @]
           [] signal.SignalType = "Sell" ->
                [signal EXCEPT
                   !.TP1 = Below(e, settings.TP1Percentage),
                   !.TP2 = Below(e, settings.TP2Percentage),
                   !.TP3 = Below(e, settings.TP3Percentage),
                   !.SL = IF settings.UseSL
                          THEN Above(e, settings.ManualSLPercentage) ELSE @]
           [] OTHER -> signal

\* recalcSingleTPAndSL (ExecuteTrade, auto mode)
recalcSingleTPAndSL(signal, settings) ==
    IF signal.EntryPrice <= 0 THEN signal
    ELSE
    LET e == signal.EntryPrice IN
    IF signal.SignalType = "Sell"
    THEN [signal EXCEPT
            !.TP2 = 0, !.TP3 = 0,
            !.TP1 = Below(e, settings.AutoTPPercentage),
            !.SL = IF settings.UseSL
                   THEN Above(e, settings.AutoSLPercentage) ELSE 0]
    ELSE [signal EXCEPT
            !.TP2 = 0, !.TP3 = 0,
            !.TP1 = Above(e, settings.AutoTPPercentage),
            !.SL = IF settings.UseSL
                   THEN Below(e, settings.AutoSLPercentage) ELSE 0]

\* recalcManualTPAndSL (ExecuteTrade, manual mode)
recalcManualTPAndSL(signal, settings) ==
    IF signal.EntryPrice <= 0 THEN signal
    ELSE
    LET e == signal.EntryPrice IN
    IF signal.SignalType = "Sell"
    THEN [signal EXCEPT
            !.TP1 = Below(e, settings.TP1Percentage),
            !.TP2 = Below(e, settings.TP2Percentage),
            !.TP3 = Below(e, settings.TP3Percentage),
            !.SL = IF settings.UseSL
                   THEN Above(e, settings.ManualSLPercentage) ELSE 0]
    ELSE [signal EXCEPT
            !.TP1 = Above(e, settings.TP1Percentage),
            !.TP2 = Above(e, settings.TP2Percentage),
            !.TP3 = Above(e, settings.TP3Percentage),
            !.SL = IF settings.UseSL
                   THEN Below(e, settings.ManualSLPercentage) ELSE 0]

\* The recalculation ExecuteTrade applies to the signal it was handed.
RecalcOnExecute(signal, settings) ==
    IF settings.AutoCalculateTPs
    THEN recalcSingleTPAndSL(signal, settings)
    ELSE recalcManualTPAndSL(signal, settings)

----------------------------------------------------------------------------
(* TradeOrchestrator: BinanceClient *)

\* What the exchange answers during one confirmation: whether it accepts the
\* margin-type change, which call (if any) it fails, and the last price it
\* reports.  After the first failing call other than the margin-type change
\* the program makes no further call, so one failure point covers every
\* combination of failures.
FailPoints == {"none", "getPrice", "changeLeverage", "exchangeInfo",
               "symbolInfo", "limitInfo", "entryOrder",
               "tp1", "tp2", "tp3", "sl"}
CurrentPrices == {Price(100), Price(105)}
Outcomes == [marginOk : BOOLEAN, fail : FailPoints, price : CurrentPrices]

\* One call of the exchange API, as the exchange saw it, and the leg of the
\* trade it serves ("entry", "tp1".."tp3", "sl", or "" for the others).
Call(op, kind, side, value, qty, ok, leg) ==
    [op |-> op, kind |-> kind, side |-> side, value |-> value, qty |-> qty,
     ok |-> ok, leg |-> leg]

\* One message to the chat: a text, a (re-)rendered signal or a menu, with
\* or without the signal's action keyboard.
Msg(kind, text, keyboard) ==
    [kind |-> kind, text |-> text, keyboard |-> keyboard]

Text(text) == Msg("text", text, FALSE)

MarginTypeOf(marginMode) ==
    IF marginMode = "Isolated" THEN "ISOLATED" ELSE "CROSSED"

invertSide(side) == IF side = "BUY" THEN "SELL" ELSE "BUY"

\* fmt.Sprintf("%.4f", price): the price to four decimals.
Format4(price) ==
    IF price >= 0 THEN ((price + 50) \div 100) * 100
    ELSE -(((-price + 50) \div 100) * 100)

\* formatPrice: the price rounded to the symbol's tick size (0.01 here).
formatPrice(price) ==
    IF price >= 0 THEN ((price + 5000) \div 10000) * 10000
    ELSE -(((-price + 5000) \div 10000) * 10000)

\* setMarginModeAndLeverage: a rejected margin-type change is logged only; a
\* rejected leverage change is the error.
setMarginModeAndLeverage(settings, ex, o) ==
    LET marginType == MarginTypeOf(settings.MarginMode)
        leverage == IF settings.Leverage <= 0 THEN 5 ELSE settings.Leverage
        levOk == o.fail # "changeLeverage"
    IN [calls |-> << Call("changeMarginType", marginType, "", 0, 0,
                          o.marginOk, ""),
                     Call("changeLeverage", "", "", leverage, 0, levOk, "") >>,
        ok |-> levOk,
        exchange |-> [marginType |-> IF o.marginOk THEN marginType
                                     ELSE ex.marginType,
                      leverage |-> IF levOk THEN leverage ELSE ex.leverage]]

\* calculateQuantity: amountUSDT / entryPrice floored to the LOT_SIZE step
\* (0.001 here); the quantity in thousandths.  "symbolInfo" is an answer
\* without the symbol or without its LOT_SIZE step.  Prices in the model are
\* multiples of 0.01.
calculateQuantity(amountUSDT, entryPrice, o) ==
    LET infoOk == o.fail # "exchangeInfo"
        call == Call("exchangeInfo", "", "", 0, 0, infoOk, "")
    IN
    IF ~infoOk \/ o.fail = "symbolInfo" \/ entryPrice <= 0
    THEN [calls |-> <<call>>, ok |-> FALSE, qty |-> 0]
    ELSE [calls |-> <<call>>, ok |-> TRUE,
          qty |-> (amountUSDT * 1000) \div (entryPrice \div 10000)]

\* The protective orders placeOCOOrder sets out to place, in order.
PlannedProtective(signal, settings) ==
    LET tp(name, price) == IF price > 0
                           THEN << [name |-> name, price |-> price,
                                    kind |-> "TAKE_PROFIT_MARKET"] >>
                           ELSE << >>
        tps == IF settings.AutoCalculateTPs
               THEN tp("tp1", signal.TP1)
               ELSE tp("tp1", signal.TP1) \o tp("tp2", signal.TP2)
                    \o tp("tp3", signal.TP3)
        sl == IF settings.UseSL /\ signal.SL > 0
              THEN << [name |-> "sl", price |-> signal.SL,
                       kind |-> "STOP_MARKET"] >>
              ELSE << >>
    IN tps \o sl

\* placeOCOOrder going on to the next order after a rejected one.
placeOCOOrderGoesOn(side, signal, settings, o) ==
    LET planned == PlannedProtective(signal, settings)
    IN [calls |-> [i \in 1..Len(planned) |->
                     Call("createOrder", planned[i].kind, invertSide(side),
                          Format4(planned[i].price), 0,
                          planned[i].name # o.fail, planned[i].name)],
        ok |-> \A i \in 1..Len(planned) : planned[i].name # o.fail]

\* placeOCOOrder: the planned orders up to and including the first that the
\* exchange rejects.
placeOCOOrder(side, signal, settings, o) ==
    LET planned == PlannedProtective(signal, settings)
        failing == {i \in 1..Len(planned) : planned[i].name = o.fail}
        n == IF failing = {} THEN Len(planned)
             ELSE CHOOSE i \in failing : \A j \in failing : i <= j
    IN [calls |-> [i \in 1..n |->
                     Call("createOrder", planned[i].kind, invertSide(side),
                          Format4(planned[i].price), 0,
                          planned[i].name # o.fail, planned[i].name)],
        ok |-> failing = {}]

\* What sendToBinance and ExecuteTrade come to: the calls made, the
\* messages sent to userID, the error returned ("nil" for none), the
\* exchange's state afterwards, whether a fill monitor was started, and the
\* signal as ExecuteTrade left it.
Result(calls, msgs, err, ex, monitor, signal) ==
    [calls |-> calls, msgs |-> msgs, err |-> err, exchange |-> ex,
     monitor |-> monitor, signal |-> signal]

SideOf(signal) == IF signal.SignalType = "Sell" THEN "SELL" ELSE "BUY"

\* placeMarketOrder
MarketOrder(signal, qty, o) ==
    Call("createOrder", "MARKET", SideOf(signal), 0, qty,
         o.fail # "entryOrder", "entry")

\* placeLimitOrder: the symbol's filters are fetched again, then the order
\* is placed at the entry price rounded to the tick.
placeLimitOrder(signal, qty, o) ==
    IF o.fail = "limitInfo"
    THEN [calls |-> << Call("exchangeInfo", "", "", 0, 0, FALSE, "") >>,
          ok |-> FALSE]
    ELSE [calls |-> << Call("exchangeInfo", "", "", 0, 0, TRUE, ""),
                       Call("createOrder", "LIMIT", SideOf(signal),
                            formatPrice(signal.EntryPrice), qty,
                            o.fail # "entryOrder", "entry") >>,
          ok |-> o.fail # "entryOrder"]

\* ExecuteTrade after a successful Market entry order: the protective
\* orders, and the fill monitor once they are all placed.
ExecuteProtective(sig, settings, ex, pre, oco) ==
    IF ~oco.ok
    THEN Result(pre \o oco.calls,
                << Text("Trade executed at market price"),
                   Text("Failed to place TPs/SL") >>,
                "protective", ex, FALSE, sig)
    ELSE Result(pre \o oco.calls,
                << Text("Trade executed at market price"),
                   Text("TP/SL orders placed") >>,
                "nil", ex, TRUE, sig)

\* ExecuteTrade from the entry order on: `pre` are the calls made so far,
\* `qty` the quantity calculateQuantity returned.
ExecuteOrders(sig, settings, ex, o, pre, qty) ==
    CASE settings.TradingMode = "Market" ->
           IF o.fail = "entryOrder"
           THEN Result(pre \o << MarketOrder(sig, qty, o) >>,
                       << Text("Failed to execute trade") >>,
                       "order", ex, FALSE, sig)
           ELSE IF (sig.TP1 # 0) \/ (settings.UseSL /\ sig.SL > 0)
           THEN ExecuteProtective(sig, settings, ex,
                                  pre \o << MarketOrder(sig, qty, o) >>,
                                  placeOCOOrder(SideOf(sig), sig, settings, o))
           ELSE Result(pre \o << MarketOrder(sig, qty, o) >>,
                       << Text("Trade executed at market price") >>,
                       "nil", ex, FALSE, sig)
      [] settings.TradingMode = "Limit" ->
           IF placeLimitOrder(sig, qty, o).ok
           THEN Result(pre \o placeLimitOrder(sig, qty, o).calls,
                       << Text("Trade executed at price") >>,
                       "nil", ex, FALSE, sig)
           ELSE Result(pre \o placeLimitOrder(sig, qty, o).calls,
                       << Text("Failed to execute trade") >>,
                       "order", ex, FALSE, sig)
      [] OTHER -> Result(pre, << >>, "nil", ex, FALSE, sig)

\* ExecuteTrade from calculateQuantity on: `m` is what
\* setMarginModeAndLeverage did.
ExecuteSized(sig, settings, o, m, q) ==
    IF ~q.ok
    THEN Result(m.calls \o q.calls,
                << Text("Failed to calculate quantity") >>,
                "quantity", m.exchange, FALSE, sig)
    ELSE ExecuteOrders(sig, settings, m.exchange, o, m.calls \o q.calls,
                       q.qty)

\* ExecuteTrade from setMarginModeAndLeverage on, for the recalculated
\* signal.
ExecuteConfigured(sig, settings, o, m) ==
    IF ~m.ok
    THEN Result(m.calls, << >>, "leverage", m.exchange, FALSE, sig)
    ELSE ExecuteSized(sig, settings, o, m,
                      calculateQuantity(settings.AmountUSDT,
                                        sig.EntryPrice, o))

\* ExecuteTrade, holding the client's lock from its first to its last step:
\* symbol check, recalculation, margin and leverage, quantity, orders.
ExecuteTrade(signal, settings, ex, o) ==
    IF signal.Symbol = ""
    THEN Result(<< >>, << Text("Signal has no symbol specified.") >>,
                "symbol", ex, FALSE, signal)
    ELSE ExecuteConfigured(RecalcOnExecute(signal, settings), settings, o,
                           setMarginModeAndLeverage(settings, ex, o))

\* The comparison without math.Abs: a price below the entry never exceeds.
DiffExceedsAbove(currentPrice, entry, tolerance) ==
    IF entry > 0
    THEN currentPrice - entry > MulDiv10000(entry, tolerance)
    ELSE IF entry = 0 THEN currentPrice # 0
    ELSE FALSE

\* math.Abs(currentPrice-entry)/entry > tolerance, as float64 decides it:
\* a zero entry gives +Inf (or NaN when the price is zero too), a negative
\* entry a negative quotient.
DiffExceeds(currentPrice, entry, tolerance) ==
    IF entry > 0
    THEN Abs(currentPrice - entry) > MulDiv10000(entry, tolerance)
    ELSE IF entry = 0 THEN currentPrice # 0
    ELSE FALSE

\* The signal sendToBinance hands to ExecuteTrade.
FilteredSignal(signal, settings) ==
    LET total1 == settings.TP1ClosePct
        use2 == settings.TP2Enabled /\ total1 < 10000
        total2 == IF use2 THEN total1 + settings.TP2ClosePct ELSE total1
        use3 == settings.TP3Enabled /\ total2 < 10000
        total3 == IF use3 THEN total2 + settings.TP3ClosePct ELSE total2
    IN [SignalID |-> signal.SignalID, SignalType |-> signal.SignalType,
        Symbol |-> signal.Symbol, Timeframe |-> "", Time |-> "",
        EntryPrice |-> signal.EntryPrice,
        TP1 |-> signal.TP1,
        TP2 |-> IF use2 THEN signal.TP2 ELSE 0,
        TP3 |-> IF use3 /\ total3 < 10000 THEN signal.TP3 ELSE 0,
        SL |-> signal.SL,
        HighPrice |-> 0, LowPrice |-> 0, Midpoint |-> 0,
        Confirmed |-> FALSE, Dismissed |-> FALSE,
        ManualEntryEdited |-> FALSE]

\* The price lookup of sendToBinance.
PriceLookup(o) ==
    << Call("getPrice", "", "", o.price, 0, o.fail # "getPrice", "") >>

PrependCalls(calls, t) == [t EXCEPT !.calls = calls \o @]

\* sendToBinance: the tolerance check of Market mode, then ExecuteTrade on
\* the filtered signal.
sendToBinance(signal, settings, ex, o) ==
    IF settings.TradingMode = "Market" /\ settings.EnableToleranceInMarketMode
    THEN IF o.fail = "getPrice"
         THEN Result(PriceLookup(o), << >>, "getPrice", ex, FALSE,
                     FilteredSignal(signal, settings))
         ELSE IF DiffExceeds(o.price, signal.EntryPrice,
                             settings.MarketPriceTolerance)
         THEN Result(PriceLookup(o), << >>, "drift", ex, FALSE,
                     FilteredSignal(signal, settings))
         ELSE PrependCalls(PriceLookup(o),
                  ExecuteTrade(FilteredSignal(signal, settings), settings,
                               ex, o))
    ELSE ExecuteTrade(FilteredSignal(signal, settings), settings, ex, o)

\* handleBinanceError: the text for the operator; only the local APIError
\* with code -4131 (the price-drift error) has a text of its own.
handleBinanceError(err) ==
    IF err = "drift"
    THEN "Trade could not be placed because the requested price is outside Binance's allowable range."
    ELSE "An unexpected error occurred. Please try again later."

----------------------------------------------------------------------------
(* Stores and the record of the last handler *)

\* An entry that exists is kept: the new value is dropped.
PutIfAbsent(map, k, v) ==
    [x \in DOMAIN map \cup {k} |->
        IF x = k /\ k \notin DOMAIN map THEN v ELSE map[x]]

\* A map with key k set to v.
Put(map, k, v) ==
    [x \in DOMAIN map \cup {k} |-> IF x = k THEN v ELSE map[x]]

\* A map without key k.
Kept(map, k) == map
Remove(map, k) == [x \in DOMAIN map \ {k} |-> map[x]]

EmptyMap == [x \in {} |-> 0]

\* The zero AlertMessage.
NoSignal ==
    [SignalID |-> "", SignalType |-> "", Symbol |-> "", Timeframe |-> "",
     Time |-> "", EntryPrice |-> 0, TP1 |-> 0, TP2 |-> 0, TP3 |-> 0,
     SL |-> 0, HighPrice |-> 0, LowPrice |-> 0, Midpoint |-> 0,
     Confirmed |-> FALSE, Dismissed |-> FALSE, ManualEntryEdited |-> FALSE]

\* What a handler did: the event it handled, whether the signal it names
\* was found, the chat messages it sent, the exchange calls it made, the
\* error sendToBinance returned ("" when it was not called), whether the
\* callback was acknowledged, whether a fill monitor was started, and the
\* signal as ExecuteTrade left it.
Did(event, action, id, found, msgs, calls, err, acked, monitor, sent) ==
    [event |-> event, action |-> action, id |-> id, found |-> found,
     msgs |-> msgs, calls |-> calls, err |-> err, acked |-> acked,
     monitor |-> monitor, sent |-> sent]

\* A handler that reaches neither the exchange nor ExecuteTrade.
DidChat(event, action, id, found, msgs, acked) ==
    Did(event, action, id, found, msgs, << >>, "", acked, FALSE, NoSignal)

\* constructSignalMessageText with createSignalInlineKeyboard (or without
\* a keyboard): a signal's message, sent or edited in place.
Rendered(id, keyboard) == Msg("signal", id, keyboard)

\* showSettingsMenu
SettingsMenu == Msg("menu", "Your Current Settings", FALSE)

----------------------------------------------------------------------------
(* Inbound alert: webhookHandler -> sendSignalMessage *)

\* The alerts the signal source sends: entry 100, a TP1 of its own, high and
\* low reference prices and no midpoint, not yet confirmed or dismissed.
Alert(rawID, signalType) ==
    [SignalID |-> rawID, SignalType |-> signalType, Symbol |-> "BTCUSDT",
     Timeframe |-> "1h", Time |-> "t",
     EntryPrice |-> Price(100),
     TP1 |-> IF signalType = "Sell" THEN Price(80) ELSE Price(120),
     TP2 |-> 0, TP3 |-> 0, SL |-> 0,
     HighPrice |-> Price(110), LowPrice |-> Price(90), Midpoint |-> 0,
     Confirmed |-> FALSE, Dismissed |-> FALSE, ManualEntryEdited |-> FALSE]

\* The message id Telegram gives the message rendered for a signal.
TelegramMessageID(signalID) == IF signalID = "sig1" THEN 11 ELSE 12

\* sendSignalMessage: the alert is recalculated and stored under its
\* sanitized id; the message id is registered if the message was sent.
sendSignalMessage(rawID, signalType, sendOk) ==
    LET alert == Alert(rawID, signalType)
        signalID == sanitizeSignalID(alert.SignalID)
        settings == UserSettingsGet(userSettings, ChatID)
        stored == IF settings.DynamicCalculationEnabled
                     /\ alert.EntryPrice > 0
                  THEN recalculateTPAndSL(alert, settings)
                  ELSE alert
    IN /\ userSettings' = StoreAfterGet(userSettings, ChatID)
       /\ signalStore' = Put(signalStore, signalID, stored)
       /\ messageStore' = IF sendOk
                          THEN Put(messageStore, signalID,
                                   TelegramMessageID(signalID))
                          ELSE messageStore
       /\ last' = DidChat("alert", "", signalID, TRUE,
                          IF sendOk THEN << Rendered(signalID, TRUE) >>
                          ELSE << >>, FALSE)
       /\ UNCHANGED <<editingUsers, exchange, monitors, tracked>>

\* webhookHandler: one alert, handled on the goroutine of its request.
Webhook(rawID, signalType, sendOk) ==
    /\ sendSignalMessage(rawID, signalType, sendOk)
    /\ UNCHANGED concurrent

----------------------------------------------------------------------------
(* Callback queries: handleCallbackQuery, one action per branch.  Every    *)
(* branch that returns to the end of handleCallbackQuery acknowledges the  *)
(* callback.                                                               *)

\* "edit|id": showEditOptions replaces the keyboard by the field choices.
CallbackEdit(chatID, signalID) ==
    /\ last' = DidChat("callback", "edit", signalID, TRUE,
                       << Msg("markup", "edit options", FALSE) >>, TRUE)
    /\ UNCHANGED <<signalStore, messageStore, editingUsers, userSettings,
                   exchange, monitors, tracked>>
    /\ UNCHANGED concurrent

\* handleFieldSelection: a reference price becomes the entry price and the
\* signal is recalculated and re-rendered; any other field opens a
\* text-entry session.
handleFieldSelection(chatID, signalID, fieldName) ==
    IF signalID \notin DOMAIN signalStore
    THEN [signals |-> signalStore, settings |-> userSettings,
          users |-> editingUsers, found |-> FALSE,
          msgs |-> << Text("Signal not found.") >>]
    ELSE
    LET signal == signalStore[signalID]
        settings == UserSettingsGet(userSettings, chatID)
        store == StoreAfterGet(userSettings, chatID)
        substituted(price) ==
            [signals |-> Put(signalStore, signalID,
                             recalculateTPAndSL(
                                [signal EXCEPT !.EntryPrice = price],
                                settings)),
             settings |-> store, users |-> editingUsers, found |-> TRUE,
             msgs |-> << Rendered(signalID, TRUE) >>]
    IN CASE fieldName = "High Price" -> substituted(signal.HighPrice)
         [] fieldName = "Low Price"  -> substituted(signal.LowPrice)
         [] fieldName = "Midpoint"   -> substituted(signal.Midpoint)
         [] OTHER ->
              \* promptNewFieldValue
              [signals |-> signalStore, settings |-> store,
               users |-> Put(editingUsers, chatID,
                             [SignalID |-> signalID, Field |-> fieldName,
                              SettingName |-> ""]),
               found |-> TRUE,
               msgs |-> << Text("Please enter the new value") >>]

\* "field|id|name"
CallbackField(chatID, signalID, fieldName) ==
    LET h == handleFieldSelection(chatID, signalID, fieldName) IN
    /\ signalStore' = h.signals
    /\ userSettings' = h.settings
    /\ editingUsers' = h.users
    /\ last' = DidChat("callback", "field", signalID, h.found, h.msgs, TRUE)
    /\ UNCHANGED <<messageStore, exchange, monitors, tracked>>
    /\ UNCHANGED concurrent

\* confirmSignal once the signal is found and marked: `r` is what
\* sendToBinance came to.
Confirmed(signalID, signal, store, r) ==
    [signals |-> Put(signalStore, signalID, signal),
     settings |-> store,
     exchange |-> r.exchange,
     \* trackSignal
     tracked |-> IF r.err = "nil" THEN tracked \cup {signal.SignalID}
                 ELSE tracked,
     did |-> Did("callback", "conf", signalID, TRUE,
                 << Rendered(signalID, FALSE) >> \o r.msgs
                 \o << IF r.err # "nil"
                       THEN Text(handleBinanceError(r.err))
                       ELSE Text("Trade executed on Binance successfully.") >>,
                 r.calls, r.err, TRUE, r.monitor, r.signal)]

\* confirmSignal reading the operator's settings before it looks the
\* signal up, so that the defaults are stored even for an unknown id.
confirmSignalSettingsFirst(chatID, signalID, o) ==
    IF signalID \notin DOMAIN signalStore
    THEN [signals |-> signalStore,
          settings |-> StoreAfterGet(userSettings, chatID),
          exchange |-> exchange, tracked |-> tracked,
          did |-> DidChat("callback", "conf", signalID, FALSE,
                          << Text("Signal not found.") >>, TRUE)]
    ELSE Confirmed(signalID,
                   [signalStore[signalID] EXCEPT !.Confirmed = TRUE],
                   StoreAfterGet(userSettings, chatID),
                   sendToBinance(
                      [signalStore[signalID] EXCEPT !.Confirmed = TRUE],
                      UserSettingsGet(userSettings, chatID), exchange, o))

\* confirmSignal: unknown id -> "Signal not found."; otherwise the signal
\* is marked confirmed, its message re-rendered without keyboard, and
\* sendToBinance runs with the operator's settings, in the handler itself.
confirmSignal(chatID, signalID, o) ==
    IF signalID \notin DOMAIN signalStore
    THEN [signals |-> signalStore, settings |-> userSettings,
          exchange |-> exchange, tracked |-> tracked,
          did |-> DidChat("callback", "conf", signalID, FALSE,
                          << Text("Signal not found.") >>, TRUE)]
    ELSE Confirmed(signalID,
                   [signalStore[signalID] EXCEPT !.Confirmed = TRUE],
                   StoreAfterGet(userSettings, chatID),
                   sendToBinance(
                      [signalStore[signalID] EXCEPT !.Confirmed = TRUE],
                      UserSettingsGet(userSettings, chatID), exchange, o))

\* The handler's effect on the program's state.
AfterConfirm(h) ==
    /\ h.did.monitor => monitors < MaxMonitors
    /\ signalStore' = h.signals
    /\ userSettings' = h.settings
    /\ exchange' = h.exchange
    /\ tracked' = h.tracked
    /\ monitors' = IF h.did.monitor THEN monitors + 1 ELSE monitors
    /\ last' = h.did
    /\ UNCHANGED <<messageStore, editingUsers>>
    /\ UNCHANGED concurrent

\* "conf|id"
CallbackConfirm(chatID, signalID, o) ==
    AfterConfirm(confirmSignal(chatID, signalID, o))

\* dismissSignal: unknown id -> "Signal not found."; otherwise the signal
\* is marked dismissed and its message re-rendered without keyboard.
dismissSignal(chatID, signalID) ==
    IF signalID \notin DOMAIN signalStore
    THEN [signals |-> signalStore,
          did |-> DidChat("callback", "dismiss", signalID, FALSE,
                          << Text("Signal not found.") >>, TRUE)]
    ELSE [signals |-> Put(signalStore, signalID,
                          [signalStore[signalID] EXCEPT !.Dismissed = TRUE]),
          did |-> DidChat("callback", "dismiss", signalID, TRUE,
                          << Rendered(signalID, FALSE),
                             Text("Signal has been dismissed.") >>, TRUE)]

\* "dismiss|id"
CallbackDismiss(chatID, signalID) ==
    LET h == dismissSignal(chatID, signalID) IN
    /\ signalStore' = h.signals
    /\ last' = h.did
    /\ UNCHANGED <<messageStore, editingUsers, userSettings, exchange,
                   monitors, tracked>>
    /\ UNCHANGED concurrent

----------------------------------------------------------------------------
(* Settings *)

\* The elements of a finite set of strings as a sequence (map iteration
\* order is not specified; one order stands for all).
RECURSIVE SeqOf(_)
SeqOf(set) ==
    IF set = {} THEN << >>
    ELSE LET x == CHOOSE y \in set : TRUE IN << x >> \o SeqOf(set \ {x})

\* The keys of the signals not dismissed, confirmed or not.
NotDismissed(signals) == {k \in DOMAIN signals : ~signals[k].Dismissed}

\* GetLatestUnconfirmedSignals: the keys of the signals neither confirmed
\* nor dismissed (the model never holds more than the limit of 20).
Unconfirmed(signals) ==
    {k \in DOMAIN signals : ~signals[k].Confirmed /\ ~signals[k].Dismissed}

\* The signals whose entry price was edited are passed over.
BulkSkipsEdited(signals, settings) ==
    [k \in DOMAIN signals |->
        IF k \notin Unconfirmed(signals) \/ signals[k].ManualEntryEdited
        THEN signals[k]
        ELSE recalculateTPAndSL(signals[k], settings)]

\* The loop that ends handleNewSettingValue: every unconfirmed signal is
\* recalculated (its entry price kept), and re-rendered with the keyboard if
\* a message is registered under the record's SignalID.
BulkRecalculate(signals, settings) ==
    [k \in DOMAIN signals |->
        IF k \notin Unconfirmed(signals) THEN signals[k]
        ELSE IF signals[k].ManualEntryEdited
        THEN [recalculateTPAndSL(signals[k], settings)
                EXCEPT !.EntryPrice = signals[k].EntryPrice]
        ELSE recalculateTPAndSL(signals[k], settings)]

BulkRendered(signals, messages) ==
    LET shown == {k \in Unconfirmed(signals) :
                    signals[k].SignalID \in DOMAIN messages}
        keys == SeqOf(shown)
    IN [i \in 1..Len(keys) |-> Rendered(signals[keys[i]].SignalID, TRUE)]

\* The switch of handleNewSettingValue: ok and the edited record, or the
\* text of the rejection.
EditedSetting(settings, settingName, text) ==
    LET accept(s) == [ok |-> TRUE, settings |-> s, text |-> ""]
        reject(t) == [ok |-> FALSE, settings |-> settings, text |-> t]
        int == Atoi(text)
        upTo100 == parseFloatRange(text, 0, 100)
        upTo1000 == parseFloatRange(text, 0, 1000)
        amount == parseFloatRange(text, 0, 1000000)
        pct == "Invalid percentage."
    IN
    CASE settingName = "Leverage" ->
           IF ~int.ok \/ int.val <= 0 \/ int.val > 125
           THEN reject("Invalid leverage value.")
           ELSE accept([settings EXCEPT !.Leverage = int.val])
      [] settingName = "AmountUSDT" ->
           IF ~amount.ok THEN reject("Invalid amount.")
           ELSE accept([settings EXCEPT
                          !.AmountUSDT = Hundredths(amount.val)])
      [] settingName = "MarketPriceTolerance" ->
           IF settings.TradingMode = "Market"
           THEN reject("Market Price Tolerance is not applicable in Market mode.")
           ELSE IF ~upTo100.ok THEN reject("Invalid tolerance value.")
           ELSE accept([settings EXCEPT
                          !.MarketPriceTolerance = Hundredths(upTo100.val)])
      [] settingName = "TP1ClosePct" ->
           IF ~upTo100.ok THEN reject(pct)
           ELSE accept(adjustTPClosePercentages(
                    [settings EXCEPT !.TP1ClosePct = Hundredths(upTo100.val)]))
      [] settingName = "TP2ClosePct" ->
           IF ~upTo100.ok THEN reject(pct)
           ELSE IF FGe(settings.TP1ClosePct, 10000)
           THEN reject("Cannot set TP2 close percentage when TP1 is 100%.")
           ELSE accept(adjustTPClosePercentages(
                    [settings EXCEPT !.TP2ClosePct = Hundredths(upTo100.val)]))
      [] settingName = "TP3ClosePct" ->
           IF ~upTo100.ok THEN reject(pct)
           ELSE IF FGe(FAdd(settings.TP1ClosePct, settings.TP2ClosePct),
                       10000)
           THEN reject("Cannot set TP3 close percentage when TP1 + TP2 is 100%.")
           ELSE accept(adjustTPClosePercentages(
                    [settings EXCEPT !.TP3ClosePct = Hundredths(upTo100.val)]))
      [] settingName = "TP1Percentage" ->
           IF ~upTo1000.ok THEN reject(pct)
           ELSE accept([settings EXCEPT
                          !.TP1Percentage = Hundredths(upTo1000.val)])
      [] settingName = "TP2Percentage" ->
           IF ~upTo1000.ok THEN reject(pct)
           ELSE IF ~settings.TP2Enabled
           THEN reject("TP2 is currently disabled due to TP1 close percentage.")
           ELSE accept([settings EXCEPT
                          !.TP2Percentage = Hundredths(upTo1000.val)])
      [] settingName = "TP3Percentage" ->
           IF ~upTo1000.ok THEN reject(pct)
           ELSE IF ~settings.TP3Enabled
           THEN reject("TP3 is currently disabled due to TP1/TP2 close percentages.")
           ELSE accept([settings EXCEPT
                          !.TP3Percentage = Hundredths(upTo1000.val)])
      [] settingName = "ManualSLPercentage" ->
           IF ~upTo100.ok THEN reject(pct)
           ELSE accept([settings EXCEPT
                          !.ManualSLPercentage = Hundredths(upTo100.val)])
      [] settingName = "AutoSLPercentage" ->
           IF ~upTo100.ok THEN reject(pct)
           ELSE accept([settings EXCEPT
                          !.AutoSLPercentage = Hundredths(upTo100.val)])
      [] settingName = "AutoTPPercentage" ->
           IF ~upTo100.ok THEN reject(pct)
           ELSE accept([settings EXCEPT
                          !.AutoTPPercentage = Hundredths(upTo100.val)])
      [] OTHER -> accept(settings)

\* handleNewSettingValue: a rejected text changes nothing (but Get has
\* stored the defaults); an accepted one is stored by Set, and the
\* unconfirmed signals are recalculated with the stored record.
handleNewSettingValue(chatID, text, settingName) ==
    LET store == StoreAfterGet(userSettings, chatID)
        e == EditedSetting(store[chatID], settingName, text)
        saved == UserSettingsSet(store, chatID, e.settings)
        signals == BulkRecalculate(signalStore, saved[chatID])
    IN
    IF ~e.ok
    THEN [signals |-> signalStore, settings |-> store,
          msgs |-> << Text(e.text) >>]
    ELSE [signals |-> signals, settings |-> saved,
          msgs |-> BulkRendered(signals, messageStore)
                   \o << Text("has been updated."), SettingsMenu >>]

\* The toggles of setUserOption: Get, flip, Set, a message and the menu.
Toggled(settings, option) ==
    CASE option = "UseSL" -> [settings EXCEPT !.UseSL = ~@]
      [] option = "AutoCalculateTPs" ->
           [settings EXCEPT !.AutoCalculateTPs = ~@]
      [] option = "DynamicCalculationEnabled" ->
           [settings EXCEPT !.DynamicCalculationEnabled = ~@]
      [] option = "EnableToleranceInMarketMode" ->
           [settings EXCEPT !.EnableToleranceInMarketMode = ~@]

ToggleOptions == {"UseSL", "AutoCalculateTPs", "DynamicCalculationEnabled",
                  "EnableToleranceInMarketMode"}
ChoiceOptions == {"MarginMode", "AssetMode", "TradingMode"}
PromptOptions == {"Leverage", "AmountUSDT", "MarketPriceTolerance",
                  "TP1ClosePct", "TP2ClosePct", "TP3ClosePct",
                  "TP1Percentage", "TP2Percentage", "TP3Percentage",
                  "ManualSLPercentage", "AutoSLPercentage",
                  "AutoTPPercentage"}

\* setUserOption
setUserOption(chatID, option) ==
    CASE option \in ChoiceOptions ->
           [settings |-> userSettings, users |-> editingUsers,
            msgs |-> << Msg("markup", option, FALSE) >>]
      [] option \in PromptOptions ->
           \* promptNewSettingValue, promptNewTPPercentage
           [settings |-> userSettings,
            users |-> Put(editingUsers, chatID,
                          [SignalID |-> "", Field |-> "",
                           SettingName |-> option]),
            msgs |-> << Text("Please enter the new value") >>]
      [] option \in ToggleOptions ->
           [settings |-> UserSettingsSet(
                            StoreAfterGet(userSettings, chatID), chatID,
                            Toggled(UserSettingsGet(userSettings, chatID),
                                    option)),
            users |-> editingUsers,
            msgs |-> << Text("has been set"), SettingsMenu >>]
      [] option = "ViewPerformance" ->
           [settings |-> userSettings, users |-> editingUsers,
            msgs |-> << Msg("markup", "performance options", FALSE) >>]
      [] OTHER ->
           [settings |-> userSettings, users |-> editingUsers,
            msgs |-> << Text("Unknown setting.") >>]

\* "setopt|option"
CallbackSetOption(chatID, option) ==
    LET h == setUserOption(chatID, option) IN
    /\ userSettings' = h.settings
    /\ editingUsers' = h.users
    /\ last' = DidChat("callback", "setopt", option, TRUE, h.msgs, TRUE)
    /\ UNCHANGED <<signalStore, messageStore, exchange, monitors, tracked>>
    /\ UNCHANGED concurrent

\* handleCallbackQueryOptionChange: a choice among two values.
handleCallbackQueryOptionChange(chatID, key, value) ==
    LET store == StoreAfterGet(userSettings, chatID)
        settings == store[chatID]
        reject(t) == [settings |-> store, msgs |-> << Text(t) >>]
        accept(s) == [settings |-> UserSettingsSet(store, chatID, s),
                      msgs |-> << Text("has been updated to"),
                                  SettingsMenu >>]
    IN
    CASE key = "MarginMode" ->
           IF value # "Cross" /\ value # "Isolated"
           THEN reject("Invalid Margin Mode selected.")
           ELSE accept([settings EXCEPT !.MarginMode = value])
      [] key = "AssetMode" ->
           IF value # "Multi" /\ value # "Single"
           THEN reject("Invalid Asset Mode selected.")
           ELSE accept([settings EXCEPT !.AssetMode = value])
      [] key = "TradingMode" ->
           IF value # "Market" /\ value # "Limit"
           THEN reject("Invalid Trading Mode selected.")
           ELSE accept([settings EXCEPT
                          !.TradingMode = value,
                          !.MarketPriceTolerance =
                              IF value = "Market" THEN 0 ELSE @])
      [] OTHER -> reject("Unknown setting.")

\* "chgopt|key|value"
CallbackChangeOption(chatID, key, value) ==
    LET h == handleCallbackQueryOptionChange(chatID, key, value) IN
    /\ userSettings' = h.settings
    /\ last' = DidChat("callback", "chgopt", key, TRUE, h.msgs, TRUE)
    /\ UNCHANGED <<signalStore, messageStore, editingUsers, exchange,
                   monitors, tracked>>
    /\ UNCHANGED concurrent

\* "performance|period": showPerformanceData reads the trade table.
CallbackPerformance(chatID, timePeriod) ==
    /\ last' = DidChat("callback", "performance", timePeriod, TRUE,
                       << Text("Performance Summary") >>, TRUE)
    /\ UNCHANGED <<signalStore, messageStore, editingUsers, userSettings,
                   exchange, monitors, tracked>>
    /\ UNCHANGED concurrent

\* Callback data is modelled as handleCallbackQuery splits it at "|".

\* The callbacks handleCallbackQuery returns from early, without the
\* acknowledgement: empty data, fewer than two parts, and "field" or
\* "chgopt" without their third part.
ReturnsEarly(parts) ==
    \/ parts = << "" >>
    \/ Len(parts) < 2
    \/ (parts[1] \in {"field", "chgopt"} /\ Len(parts) < 3)

\* The callbacks with an action the switch does not know ("settings" has
\* no case): logged, then acknowledged.
UnknownAction(parts) ==
    /\ ~ReturnsEarly(parts)
    /\ parts[1] \notin {"edit", "field", "conf", "dismiss", "setopt",
                        "chgopt", "performance"}

\* A callback none of the handlers above is called for: no handler is
\* recorded, only the first part of the data.
CallbackOther(chatID, parts) ==
    /\ ReturnsEarly(parts) \/ UnknownAction(parts)
    /\ last' = DidChat("callback", "", parts[1], TRUE, << >>,
                       ~ReturnsEarly(parts))
    /\ UNCHANGED <<signalStore, messageStore, editingUsers, userSettings,
                   exchange, monitors, tracked>>
    /\ UNCHANGED concurrent

----------------------------------------------------------------------------
(* Text messages: handleMessage *)

\* handleNewFieldValue: only "Entry Price" is applied; the signal is
\* recalculated and its message re-rendered with the keyboard.
handleNewFieldValue(chatID, text, state, sendOk) ==
    LET signalID == state.SignalID
        fieldName == state.Field
    IN
    IF signalID \notin DOMAIN signalStore
    THEN [signals |-> signalStore, settings |-> userSettings,
          msgs |-> << Text("Signal not found.") >>]
    ELSE
    LET signal == signalStore[signalID]
        store == StoreAfterGet(userSettings, chatID)
        value == ParseFloat(text)
        edited == recalculateTPAndSL(
                     [signal EXCEPT !.EntryPrice = value.val,
                                    !.ManualEntryEdited = TRUE],
                     store[chatID])
    IN
    IF fieldName # "Entry Price"
    THEN [signals |-> signalStore, settings |-> store,
          msgs |-> << Text("Unknown field.") >>]
    ELSE IF ~value.ok
    THEN [signals |-> signalStore, settings |-> store,
          msgs |-> << Text("Invalid value for Entry Price.") >>]
    ELSE [signals |-> Put(signalStore, signalID, edited),
          settings |-> store,
          msgs |-> IF signalID \notin DOMAIN messageStore
                   THEN << Text("Unable to find the message to update.") >>
                   ELSE IF ~sendOk THEN << >>
                   ELSE << Rendered(signalID, TRUE),
                           Text("Signal updated successfully.") >>]

Commands == {"/start", "/settings"}

\* handleMessage with an edit session open: the text goes to the session's
\* handler and the session is deleted when the handler returns; a session
\* naming neither a field nor a setting is left alone.
MessageWhileEditing(chatID, text, sendOk) ==
    /\ chatID \in DOMAIN editingUsers
    /\ LET state == editingUsers[chatID]
           f == handleNewFieldValue(chatID, text, state, sendOk)
           g == handleNewSettingValue(chatID, text, state.SettingName)
       IN IF state.Field # ""
          THEN /\ signalStore' = f.signals
               /\ userSettings' = f.settings
               /\ editingUsers' = Remove(editingUsers, chatID)
               /\ last' = DidChat("message", "field", state.SignalID,
                                  state.SignalID \in DOMAIN signalStore,
                                  f.msgs, FALSE)
          ELSE IF state.SettingName # ""
          THEN /\ signalStore' = g.signals
               /\ userSettings' = g.settings
               /\ editingUsers' = Remove(editingUsers, chatID)
               /\ last' = DidChat("message", "setting", state.SettingName,
                                  TRUE, g.msgs, FALSE)
          ELSE /\ UNCHANGED <<signalStore, userSettings, editingUsers>>
               /\ last' = DidChat("message", "", "", TRUE,
                             << Text("Please select an option from the menu.") >>,
                             FALSE)
    /\ UNCHANGED <<messageStore, exchange, monitors, tracked>>
    /\ UNCHANGED concurrent

\* handleMessage without an edit session: a command (handleCommand) or a
\* text the bot has no use for.
MessageIdle(chatID, text) ==
    /\ chatID \notin DOMAIN editingUsers
    /\ userSettings' = IF text = "/settings"
                       THEN StoreAfterGet(userSettings, chatID)
                       ELSE userSettings
    /\ last' = DidChat("message", "", text, TRUE,
                  IF text = "/settings" THEN << SettingsMenu >>
                  ELSE IF text = "/start" THEN << Text("Welcome!") >>
                  ELSE << Text("Please use the /settings commands to interact.") >>,
                  FALSE)
    /\ UNCHANGED <<signalStore, messageStore, editingUsers, exchange,
                   monitors, tracked>>
    /\ UNCHANGED concurrent

----------------------------------------------------------------------------
(* The program *)

\* The goroutines that run handlers: the update loop of
\* startTelegramListener, an HTTP handler serving the webhook, and one
\* more caller of BinanceClient.ExecuteTrade.
Goroutines == {"listener", "webhook", "second"}

\* A goroutine that runs no handler, and one that has run `runs` handlers
\* step by step.
NoJob == [none |-> TRUE]
IdleAfter(runs) == [pc |-> "idle", runs |-> runs, job |-> NoJob]

\* main has initialised the bot and started the listener: the first bot,
\* its update channel, and the listener goroutine that ranges over it and
\* closes the first shutdown channel when it returns.
ListenerStarted ==
    [bot |-> 1, updatesChan |-> 1, listenerShutdown |-> 1,
     bots |-> 1, stopped |-> {}, chans |-> << 1 >>,
     made |-> 1, closed |-> {},
     loops |-> << [ch |-> 1, done |-> 1, state |-> "waiting"] >>,
     inits |-> << >>, alive |-> TRUE]

\* Nothing stored; the exchange account is in either margin type, at the
\* exchange's initial leverage of 20; the Telegram listener runs.
Init ==
    /\ signalStore = EmptyMap
    /\ messageStore = EmptyMap
    /\ editingUsers = EmptyMap
    /\ userSettings = EmptyMap
    /\ exchange \in [marginType : {"CROSSED", "ISOLATED"}, leverage : {20}]
    /\ monitors = 0
    /\ tracked = {}
    /\ last = DidChat("init", "", "", TRUE, << >>, FALSE)
    /\ mu = ""
    /\ task = [g \in Goroutines |-> IdleAfter(0)]
    /\ wire = << >>
    /\ seen = << >>
    /\ stream = [alive |-> TRUE, running |-> 0, lost |-> 0,
                 deliveries |-> 0, filled |-> EmptyMap]
    /\ settingsLock = [readers |-> {}, waiting |-> {}, writer |-> "",
                       kept |-> "", got |-> [g \in Goroutines |-> ""],
                       misuse |-> FALSE]
    /\ telegram = ListenerStarted

\* The program's steps, its inputs drawn from the sets of `in`: one inbound
\* alert, one callback query or one text message at a time.
NextWith(in) ==
    \/ \E rawID \in in.rawIDs, signalType \in in.types, sendOk \in in.sendOk :
          Webhook(rawID, signalType, sendOk)
    \/ \E id \in in.editIDs : CallbackEdit(ChatID, id)
    \/ \E id \in in.editIDs, f \in in.fields : CallbackField(ChatID, id, f)
    \/ \E id \in in.confirmIDs, o \in in.outcomes :
          CallbackConfirm(ChatID, id, o)
    \/ \E id \in in.dismissIDs : CallbackDismiss(ChatID, id)
    \/ \E option \in in.options : CallbackSetOption(ChatID, option)
    \/ \E c \in in.choices : CallbackChangeOption(ChatID, c[1], c[2])
    \/ \E period \in in.periods : CallbackPerformance(ChatID, period)
    \/ \E parts \in in.malformed : CallbackOther(ChatID, parts)
    \/ \E text \in in.texts, sendOk \in in.sendOk :
          MessageWhileEditing(ChatID, text, sendOk)
    \/ \E text \in in.idleTexts : MessageIdle(ChatID, text)

\* The signal's life from alert to confirmation or dismissal: edits of its
\* entry price, a setting edited by text, and an exchange that accepts the
\* trade or rejects the entry order.
LifecycleInputs ==
    [rawIDs     |-> RawSignalIDs,
     types      |-> {"Buy"},
     sendOk     |-> {TRUE},
     editIDs    |-> CallbackIDs,
     confirmIDs |-> CallbackIDs,
     dismissIDs |-> CallbackIDs,
     fields     |-> {"Entry Price", "TP1", "High Price"},
     outcomes   |-> [marginOk : {TRUE}, fail : {"none", "entryOrder"},
                     price : CurrentPrices],
     options    |-> {"TP1Percentage", "TradingMode"},
     choices    |-> { <<"TradingMode", "Limit">>, <<"TradingMode", "Market">> },
     periods    |-> {"day"},
     malformed  |-> { << "" >>, << "bogus", "sig1" >> },
     texts      |-> {"abc", "105"},
     idleTexts  |-> {"/settings", "hello"}]

Next == NextWith(LifecycleInputs)

Spec == Init /\ [][Next]_vars

\* Execution against an exchange that may reject any one call: both trading
\* modes and margin modes, with and without a stop loss.
TradeInputs ==
    [rawIDs     |-> {"sig1"},
     types      |-> {"Buy"},
     sendOk     |-> {TRUE},
     editIDs    |-> {"sig1"},
     confirmIDs |-> {"sig1"},
     dismissIDs |-> {"ghost"},
     fields     |-> {"TP1"},
     outcomes   |-> Outcomes,
     options    |-> {"UseSL", "AutoCalculateTPs"},
     choices    |-> { <<"TradingMode", "Limit">>, <<"TradingMode", "Market">>,
                      <<"MarginMode", "Isolated">>, <<"MarginMode", "Cross">> },
     periods    |-> {"day"},
     malformed  |-> { << "conf" >> },
     texts      |-> {"abc"},
     idleTexts  |-> {"/settings"}]

NextTrade == NextWith(TradeInputs)

SpecTrade == Init /\ [][NextTrade]_vars

\* Execution under the settings that select and recalculate the targets:
\* the dynamic-recalculation and tolerance switches and a TP1 close weight
\* of 100 %, for long and short signals.
TargetInputs ==
    [rawIDs     |-> {"sig1"},
     types      |-> {"Buy", "Sell"},
     sendOk     |-> {TRUE},
     editIDs    |-> {"sig1"},
     confirmIDs |-> {"sig1"},
     dismissIDs |-> {"ghost"},
     fields     |-> {"High Price"},
     outcomes   |-> [marginOk : {TRUE}, fail : {"none"}, price : CurrentPrices],
     options    |-> {"DynamicCalculationEnabled",
                     "EnableToleranceInMarketMode", "TP1ClosePct"},
     choices    |-> { <<"TradingMode", "Limit">>, <<"TradingMode", "Market">> },
     periods    |-> {"day"},
     malformed  |-> { << "conf" >> },
     texts      |-> {"100"},
     idleTexts  |-> {"/settings"}]

NextTargets == NextWith(TargetInputs)

SpecTargets == Init /\ [][NextTargets]_vars

----------------------------------------------------------------------------
(* A confirmation step by step: confirmSignal runs in the goroutine of the  *)
(* update loop, and every exchange call is a round trip of its own.  A      *)
(* second goroutine calls ExecuteTrade too.                                 *)

\* The update loop is between two updates.
ListenerIdle == task["listener"].pc = "idle"

\* BinanceClient.mu is held by every caller or by none.
MuIgnored(holder) == TRUE

\* b.mu.Lock() returns once no goroutine holds the mutex.
MuAvailable(holder) == holder = ""

\* A goroutine at `pc` of its job.
At(g, pc, job) == [task EXCEPT ![g] = [pc |-> pc, runs |-> @.runs,
                                       job |-> job]]

\* A goroutine back from its job.
Back(g) == [task EXCEPT ![g] = IdleAfter(@.runs + 1)]

\* One exchange call on the wire: the goroutine and the run that made it,
\* and whether it was made inside ExecuteTrade.
Sent(g, call, inExecute) ==
    Append(wire, [by |-> g, run |-> task[g].runs, call |-> call,
                  inExecute |-> inExecute])

\* sendToBinance returns before it calls ExecuteTrade.
StopsBeforeExecute(job) ==
    sendToBinance(job.signal, job.settings, exchange, job.o).err
        \in {"getPrice", "drift"}

\* "conf|id" taken from the update channel: confirmSignal up to its call
\* of sendToBinance, whose first statement is the price lookup when the
\* tolerance check applies.
ConfirmBegin(chatID, signalID, o) ==
    /\ ListenerIdle
    /\ task["listener"].runs < MaxRuns
    /\ signalID \in DOMAIN signalStore
    /\ LET signal == [signalStore[signalID] EXCEPT !.Confirmed = TRUE]
           settings == UserSettingsGet(userSettings, chatID)
       IN /\ signalStore' = Put(signalStore, signalID, signal)
          /\ userSettings' = StoreAfterGet(userSettings, chatID)
          /\ task' = At("listener",
                        IF settings.TradingMode = "Market"
                           /\ settings.EnableToleranceInMarketMode
                        THEN "price" ELSE "lock",
                        [id |-> signalID, signal |-> signal,
                         settings |-> settings, o |-> o, priced |-> FALSE,
                         plan |-> NoJob, next |-> 1])
    /\ last' = DidChat("callback", "conf", signalID, TRUE,
                       << Rendered(signalID, FALSE) >>, FALSE)
    /\ UNCHANGED <<messageStore, editingUsers, exchange, monitors, tracked,
                   mu, wire, seen, stream, settingsLock,
                   telegram>>

\* getCurrentPrice returns: sendToBinance stops on an error or on a price
\* out of tolerance, and calls ExecuteTrade otherwise.
PriceAnswered ==
    /\ task["listener"].pc = "price"
    /\ LET job == task["listener"].job IN
       /\ wire' = Sent("listener", PriceLookup(job.o)[1], FALSE)
       /\ task' = IF StopsBeforeExecute(job)
                  THEN At("listener", "finish",
                          [job EXCEPT !.plan =
                              sendToBinance(job.signal, job.settings,
                                            exchange, job.o)])
                  ELSE At("listener", "lock", [job EXCEPT !.priced = TRUE])
    /\ UNCHANGED <<signalStore, messageStore, editingUsers, userSettings,
                   exchange, monitors, tracked, last, mu, seen, stream, settingsLock,
                   telegram>>

\* Another goroutine calls ExecuteTrade for a stored signal.
SecondBegin(signalID, o) ==
    /\ task["second"].pc = "idle"
    /\ task["second"].runs < MaxRuns
    /\ signalID \in DOMAIN signalStore
    /\ ChatID \in DOMAIN userSettings
    /\ task' = At("second", "lock",
                  [id |-> signalID, signal |-> signalStore[signalID],
                   settings |-> userSettings[ChatID], o |-> o,
                   priced |-> FALSE, plan |-> NoJob, next |-> 1])
    /\ UNCHANGED <<signalStore, messageStore, editingUsers, userSettings,
                   exchange, monitors, tracked, last, mu, wire, seen, stream, settingsLock,
                   telegram>>

\* ExecuteTrade's b.mu.Lock(): with the mutex held, what the call will do
\* is decided by the signal, the settings and the exchange's answers.
ExecuteLock(g) ==
    /\ task[g].pc = "lock"
    /\ MuAvailable(mu)
    /\ mu' = g
    /\ LET job == task[g].job
           plan == ExecuteTrade(FilteredSignal(job.signal, job.settings),
                                job.settings, exchange, job.o)
       IN task' = At(g, IF plan.calls = << >> THEN "unlock" ELSE "calls",
                     [job EXCEPT !.plan = plan])
    /\ UNCHANGED <<signalStore, messageStore, editingUsers, userSettings,
                   exchange, monitors, tracked, last, wire, seen, stream, settingsLock,
                   telegram>>

\* One exchange call of ExecuteTrade returns.
ExecuteCall(g) ==
    /\ task[g].pc = "calls"
    /\ LET job == task[g].job IN
       /\ wire' = Sent(g, job.plan.calls[job.next], TRUE)
       /\ task' = At(g, IF job.next = Len(job.plan.calls)
                        THEN "unlock" ELSE "calls",
                     [job EXCEPT !.next = @ + 1])
    /\ UNCHANGED <<signalStore, messageStore, editingUsers, userSettings,
                   exchange, monitors, tracked, last, mu, seen, stream, settingsLock,
                   telegram>>

\* ExecuteTrade returns: the deferred b.mu.Unlock().  The exchange is as
\* the calls left it, and the monitor goroutine, if started, runs.
ExecuteUnlock(g) ==
    /\ task[g].pc = "unlock"
    /\ mu' = ""
    /\ exchange' = task[g].job.plan.exchange
    /\ monitors' = IF task[g].job.plan.monitor THEN monitors + 1
                   ELSE monitors
    /\ task' = IF g = "listener" THEN At(g, "finish", task[g].job)
               ELSE Back(g)
    /\ UNCHANGED <<signalStore, messageStore, editingUsers, userSettings,
                   tracked, last, wire, seen, stream, settingsLock,
                   telegram>>

\* confirmSignal after sendToBinance returned: the message to the
\* operator, trackSignal, and the acknowledgement of the callback.
ConfirmFinish ==
    /\ task["listener"].pc = "finish"
    /\ LET job == task["listener"].job
           r == IF job.priced
                THEN PrependCalls(PriceLookup(job.o), job.plan)
                ELSE job.plan
           h == Confirmed(job.id, job.signal, userSettings, r)
       IN /\ tracked' = h.tracked
          /\ last' = h.did
    /\ task' = Back("listener")
    /\ UNCHANGED <<signalStore, messageStore, editingUsers, userSettings,
                   exchange, monitors, mu, wire, seen, stream, settingsLock,
                   telegram>>

\* The update loop takes the next update from the channel.
LoopDispatch(in) ==
    /\ ListenerIdle
    /\ \/ \E id \in in.confirmIDs, o \in in.outcomes :
             ConfirmBegin(ChatID, id, o)
       \/ \E id \in in.editIDs : CallbackEdit(ChatID, id)
       \/ \E text \in in.idleTexts : MessageIdle(ChatID, text)

\* Two alerts, confirmations by the update loop and by the second caller,
\* an exchange that accepts every call or rejects the entry order.
ExecuteInputs ==
    [rawIDs     |-> {"sig1"},
     types      |-> {"Buy"},
     sendOk     |-> {TRUE},
     editIDs    |-> {"sig1"},
     confirmIDs |-> {"sig1"},
     idleTexts  |-> {"/settings"},
     outcomes   |-> [marginOk : {TRUE}, fail : {"none", "entryOrder"},
                     price : CurrentPrices]]

NextExecute ==
    \/ \E rawID \in ExecuteInputs.rawIDs, signalType \in ExecuteInputs.types,
          sendOk \in ExecuteInputs.sendOk :
          Webhook(rawID, signalType, sendOk)
    \/ LoopDispatch(ExecuteInputs)
    \/ PriceAnswered
    \/ \E id \in ExecuteInputs.confirmIDs, o \in ExecuteInputs.outcomes :
          SecondBegin(id, o)
    \/ \E g \in {"listener", "second"} : ExecuteLock(g)
    \/ \E g \in {"listener", "second"} : ExecuteCall(g)
    \/ \E g \in {"listener", "second"} : ExecuteUnlock(g)
    \/ ConfirmFinish

SpecExecute == Init /\ [][NextExecute]_vars

\* The goroutines of the program are scheduled: a goroutine that can take
\* the lock, release it or finish its handler does so.  Whether an exchange
\* call returns is up to the exchange and the network: the calls are made
\* with context.Background() and nothing in the program ends a call that
\* gets no response.
SpecExecuteFair ==
    /\ SpecExecute
    /\ \A g \in {"listener", "second"} :
          WF_vars(ExecuteLock(g)) /\ WF_vars(ExecuteUnlock(g))
    /\ WF_vars(ConfirmFinish)

----------------------------------------------------------------------------
(* A close-weight update statement by statement: handleNewSettingValue     *)
(* writes into the record Get returned, which is the stored one, while     *)
(* alerts are handled on other goroutines.                                  *)

CloseWeights == {"TP1ClosePct", "TP2ClosePct", "TP3ClosePct"}

\* The operator's text is an accepted value of the close weight being
\* edited.
AcceptedWeight(chatID, text) ==
    /\ chatID \in DOMAIN editingUsers
    /\ editingUsers[chatID].Field = ""
    /\ editingUsers[chatID].SettingName \in CloseWeights
    /\ EditedSetting(UserSettingsGet(userSettings, chatID),
                     editingUsers[chatID].SettingName, text).ok

\* settings.TPnClosePct = val, in the stored record.
SettingAssign(chatID, text) ==
    /\ ListenerIdle
    /\ task["listener"].runs < MaxRuns
    /\ AcceptedWeight(chatID, text)
    /\ LET pre == UserSettingsGet(userSettings, chatID)
           settingName == editingUsers[chatID].SettingName
       IN /\ userSettings' =
                Put(userSettings, chatID,
                    [pre EXCEPT ![settingName] =
                        Hundredths(parseFloatRange(text, 0, 100).val)])
          /\ task' = At("listener", "adjust",
                        [chatID |-> chatID, pre |-> pre,
                         post |-> NormalizeSettings(
                                    EditedSetting(pre, settingName,
                                                  text).settings)])
    /\ UNCHANGED <<signalStore, messageStore, editingUsers, exchange,
                   monitors, tracked, last, mu, wire, seen, stream, settingsLock,
                   telegram>>

\* adjustTPClosePercentages(settings), in the stored record.
SettingAdjust ==
    /\ task["listener"].pc = "adjust"
    /\ LET chatID == task["listener"].job.chatID IN
       userSettings' = Put(userSettings, chatID,
                           adjustTPClosePercentages(userSettings[chatID]))
    /\ task' = At("listener", "set", task["listener"].job)
    /\ UNCHANGED <<signalStore, messageStore, editingUsers, exchange,
                   monitors, tracked, last, mu, wire, seen, stream, settingsLock,
                   telegram>>

\* userSettings.Set and the rest of handleNewSettingValue; handleMessage
\* deletes the session.
SettingSet ==
    /\ task["listener"].pc = "set"
    /\ LET chatID == task["listener"].job.chatID
           saved == UserSettingsSet(userSettings, chatID,
                                    userSettings[chatID])
           signals == BulkRecalculate(signalStore, saved[chatID])
       IN /\ userSettings' = saved
          /\ signalStore' = signals
          /\ last' = DidChat("message", "setting",
                             editingUsers[chatID].SettingName, TRUE,
                             BulkRendered(signals, messageStore)
                             \o << Text("has been updated."), SettingsMenu >>,
                             FALSE)
          /\ editingUsers' = Remove(editingUsers, chatID)
    /\ task' = Back("listener")
    /\ UNCHANGED <<messageStore, exchange, monitors, tracked, mu, wire,
                   seen, stream, settingsLock,
                   telegram>>

\* An alert handled while the update loop is anywhere in its handler: the
\* record sendSignalMessage gets from userSettings.Get, next to the record
\* before and after the update under way (the stored one when there is
\* none).
WebhookReads(rawID, signalType, sendOk) ==
    /\ sendSignalMessage(rawID, signalType, sendOk)
    /\ LET rec == UserSettingsGet(userSettings, ChatID)
           job == task["listener"].job
           updating == task["listener"].pc \in {"adjust", "set"}
       IN seen' = << [rec |-> rec,
                      pre |-> IF updating THEN job.pre ELSE rec,
                      post |-> IF updating THEN job.post ELSE rec] >>
    /\ UNCHANGED <<mu, task, wire, stream, settingsLock,
                   telegram>>

RaceInputs ==
    [rawIDs  |-> {"sig1"},
     types   |-> {"Buy", "Sell"},
     sendOk  |-> {TRUE},
     options |-> {"TP1ClosePct", "TP2ClosePct"},
     texts   |-> {"100", "2"}]

NextRace ==
    \/ \E rawID \in RaceInputs.rawIDs, signalType \in RaceInputs.types,
          sendOk \in RaceInputs.sendOk :
          WebhookReads(rawID, signalType, sendOk)
    \/ \E option \in RaceInputs.options :
          ListenerIdle /\ CallbackSetOption(ChatID, option)
    \/ \E text \in RaceInputs.texts : SettingAssign(ChatID, text)
    \/ SettingAdjust
    \/ SettingSet
    \/ \E text \in RaceInputs.texts, sendOk \in RaceInputs.sendOk :
          /\ ListenerIdle
          /\ ~AcceptedWeight(ChatID, text)
          /\ MessageWhileEditing(ChatID, text, sendOk)

SpecRace == Init /\ [][NextRace]_vars

----------------------------------------------------------------------------
(* The close weights edited from the settings menu, in any order.          *)

WeightInputs ==
    [rawIDs  |-> {"sig1"},
     types   |-> {"Buy"},
     sendOk  |-> {TRUE},
     options |-> CloseWeights,
     texts   |-> {"0", "50", "70", "100", "NaN", "abc"}]

NextWeights ==
    \/ \E rawID \in WeightInputs.rawIDs, signalType \in WeightInputs.types,
          sendOk \in WeightInputs.sendOk :
          Webhook(rawID, signalType, sendOk)
    \/ \E option \in WeightInputs.options :
          CallbackSetOption(ChatID, option)
    \/ \E text \in WeightInputs.texts, sendOk \in WeightInputs.sendOk :
          MessageWhileEditing(ChatID, text, sendOk)

SpecWeights == Init /\ [][NextWeights]_vars

----------------------------------------------------------------------------
(* Recalculation of the stored signals when a percentage is edited, in     *)
(* manual and in auto mode, for Buy and Sell alerts.                       *)

RecalcInputs ==
    [rawIDs  |-> {"sig1"},
     types   |-> {"Buy", "Sell"},
     sendOk  |-> {TRUE},
     options |-> {"TP1Percentage", "AutoTPPercentage", "UseSL",
                  "AutoCalculateTPs"},
     texts   |-> {"0", "2"}]

NextRecalc ==
    \/ \E rawID \in RecalcInputs.rawIDs, signalType \in RecalcInputs.types,
          sendOk \in RecalcInputs.sendOk :
          Webhook(rawID, signalType, sendOk)
    \/ \E option \in RecalcInputs.options :
          CallbackSetOption(ChatID, option)
    \/ \E text \in RecalcInputs.texts, sendOk \in RecalcInputs.sendOk :
          MessageWhileEditing(ChatID, text, sendOk)

SpecRecalc == Init /\ [][NextRecalc]_vars

----------------------------------------------------------------------------
(* What a recalculation leaves alone: dynamic calculation switched off and *)
(* on, the entry price edited by text or replaced by the high price, a     *)
(* percentage edited while signals are pending, confirmed or dismissed.    *)

FrameInputs ==
    [rawIDs     |-> {"sig1"},
     types      |-> {"Buy"},
     sendOk     |-> {TRUE},
     editIDs    |-> {"sig1"},
     confirmIDs |-> {"sig1"},
     dismissIDs |-> {"sig1"},
     fields     |-> {"Entry Price", "High Price"},
     outcomes   |-> [marginOk : {TRUE}, fail : {"none"}, price : {Price(100)}],
     options    |-> {"DynamicCalculationEnabled", "TP1Percentage"},
     choices    |-> { <<"TradingMode", "Limit">> },
     periods    |-> {"day"},
     malformed  |-> { << "" >> },
     texts      |-> {"105", "2"},
     idleTexts  |-> {"/settings"}]

NextFrame == NextWith(FrameInputs)

SpecFrame == Init /\ [][NextFrame]_vars

----------------------------------------------------------------------------
(* The fill monitors: every market trade with protective orders starts a   *)
(* goroutine running monitorOrdersViaWebSocket, which starts the user data *)
(* stream, dials the websocket and reports every FILLED event it reads.    *)

\* Cap on the number of FILLED events the feed delivers.
MaxDeliveries == 2

\* The update loop takes an update while the process runs.
EventLoop(in) ==
    /\ stream.alive
    /\ \/ \E id \in in.confirmIDs, o \in in.outcomes :
             CallbackConfirm(ChatID, id, o)
       \/ \E text \in in.idleTexts : MessageIdle(ChatID, text)

\* A started monitor reaches its read loop, or log.Fatalf ends the process
\* because the user data stream cannot be started or the websocket cannot
\* be dialled.
MonitorConnect(outcome) ==
    /\ stream.alive
    /\ monitors > stream.running + stream.lost
    /\ stream' = IF outcome = "ok"
                 THEN [stream EXCEPT !.running = @ + 1]
                 ELSE [stream EXCEPT !.alive = FALSE]
    /\ last' = DidChat("monitor", outcome, "", TRUE, << >>, FALSE)
    /\ UNCHANGED <<signalStore, messageStore, editingUsers, userSettings,
                   exchange, monitors, tracked, mu, task, wire, seen,
                   settingsLock, telegram>>

\* The feed delivers ORDER_TRADE_UPDATE with status FILLED for `order`:
\* every monitor in its read loop sends "Order ... has been filled.".
FeedFilled(order) ==
    /\ stream.alive
    /\ stream.running > 0
    /\ stream.deliveries < MaxDeliveries
    /\ stream' = [stream EXCEPT
                    !.deliveries = @ + 1,
                    !.filled = Put(@, order,
                                   (IF order \in DOMAIN @ THEN @[order]
                                    ELSE 0) + stream.running)]
    /\ last' = DidChat("monitor", "filled", order, TRUE,
                       [i \in 1..stream.running |->
                           Text("has been filled.")], FALSE)
    /\ UNCHANGED <<signalStore, messageStore, editingUsers, userSettings,
                   exchange, monitors, tracked, mu, task, wire, seen,
                   settingsLock, telegram>>

\* The connection of a monitor is lost: ReadMessage returns an error, which
\* the read loop logs before it reads again.
ConnectionLost ==
    /\ stream.alive
    /\ stream.running > 0
    /\ stream' = [stream EXCEPT !.running = @ - 1, !.lost = @ + 1]
    /\ last' = DidChat("monitor", "lost", "", TRUE, << >>, FALSE)
    /\ UNCHANGED <<signalStore, messageStore, editingUsers, userSettings,
                   exchange, monitors, tracked, mu, task, wire, seen,
                   settingsLock, telegram>>

MonitorInputs ==
    [rawIDs     |-> {"sig1"},
     types      |-> {"Buy"},
     sendOk     |-> {TRUE},
     confirmIDs |-> {"sig1"},
     idleTexts  |-> {"/settings", "hello"},
     outcomes   |-> [marginOk : {TRUE}, fail : {"none", "entryOrder"},
                     price : {Price(100)}],
     connects   |-> {"ok", "startFailed", "dialFailed"},
     orders     |-> {"order1", "order2"}]

NextMonitor ==
    \/ \E rawID \in MonitorInputs.rawIDs, signalType \in MonitorInputs.types,
          sendOk \in MonitorInputs.sendOk :
          stream.alive /\ Webhook(rawID, signalType, sendOk)
    \/ EventLoop(MonitorInputs)
    \/ \E outcome \in MonitorInputs.connects : MonitorConnect(outcome)
    \/ \E order \in MonitorInputs.orders : FeedFilled(order)
    \/ ConnectionLost

SpecMonitor == Init /\ [][NextMonitor]_vars

----------------------------------------------------------------------------
(* Inputs the program has to validate: alert identifiers with and without  *)
(* word characters, and texts and choices for the settings that are        *)
(* numbers, out of range, or no numbers at all.                            *)

ValidationInputs ==
    [rawIDs  |-> {"sig1", "!!!"},
     types   |-> {"Buy"},
     sendOk  |-> {TRUE},
     options |-> {"Leverage", "AmountUSDT", "MarketPriceTolerance",
                  "TP1ClosePct", "TP2ClosePct", "TP1Percentage"},
     choices |-> { <<"TradingMode", "Limit">>, <<"TradingMode", "Market">>,
                   <<"TradingMode", "Spot">> },
     texts   |-> {"abc", "-1", "100", "105"}]

NextValidation ==
    \/ \E rawID \in ValidationInputs.rawIDs,
          signalType \in ValidationInputs.types,
          sendOk \in ValidationInputs.sendOk :
          Webhook(rawID, signalType, sendOk)
    \/ \E option \in ValidationInputs.options :
          CallbackSetOption(ChatID, option)
    \/ \E c \in ValidationInputs.choices :
          CallbackChangeOption(ChatID, c[1], c[2])
    \/ \E text \in ValidationInputs.texts, sendOk \in ValidationInputs.sendOk :
          MessageWhileEditing(ChatID, text, sendOk)

SpecValidation == Init /\ [][NextValidation]_vars

----------------------------------------------------------------------------
(* The price tolerance: edited in Limit mode, the trading mode switched,   *)
(* the entry price edited, and confirmations at either current price.      *)

ToleranceInputs ==
    [rawIDs     |-> {"sig1"},
     types      |-> {"Buy"},
     sendOk     |-> {TRUE},
     editIDs    |-> {"sig1"},
     confirmIDs |-> {"sig1"},
     dismissIDs |-> {"ghost"},
     fields     |-> {"Entry Price"},
     outcomes   |-> [marginOk : {TRUE}, fail : {"none", "getPrice"},
                     price : CurrentPrices],
     options    |-> {"MarketPriceTolerance", "EnableToleranceInMarketMode"},
     choices    |-> { <<"TradingMode", "Limit">>, <<"TradingMode", "Market">> },
     periods    |-> {"day"},
     malformed  |-> { << "conf" >> },
     texts      |-> {"2", "105", "-1"},
     idleTexts  |-> {"/settings"}]

NextTolerance == NextWith(ToleranceInputs)

SpecTolerance == Init /\ [][NextTolerance]_vars

----------------------------------------------------------------------------
(* UserSettingsStore.Get statement by statement, called by the update loop *)
(* and by webhook requests, each on its own goroutine.  A record is         *)
(* identified by the goroutine that allocated it.                           *)

\* s.RLock() returns when no writer holds the mutex and no caller of Lock
\* is waiting for it.
CanRLock == settingsLock.writer = "" /\ settingsLock.waiting = {}

\* The goroutine at `pc` of Get, with the record it holds.
InGet(g, pc, rec) == At(g, pc, [rec |-> rec])

\* s.RLock() at the entry of Get.
GetRLock(g) ==
    /\ task[g].pc = "idle"
    /\ task[g].runs < MaxRuns
    /\ CanRLock
    /\ settingsLock' = [settingsLock EXCEPT !.readers = @ \cup {g}]
    /\ task' = InGet(g, "lookup", "")
    /\ UNCHANGED <<signalStore, messageStore, editingUsers, userSettings,
                   exchange, monitors, tracked, last, mu, wire, seen, stream,
                   telegram>>

\* settings, exists := s.settings[userID]; a missing record is allocated
\* with the defaults and adjusted.
GetLookup(g) ==
    /\ task[g].pc = "lookup"
    /\ task' = IF settingsLock.kept # ""
               THEN InGet(g, "return", settingsLock.kept)
               ELSE InGet(g, "runlock", g)
    /\ UNCHANGED <<signalStore, messageStore, editingUsers, userSettings,
                   exchange, monitors, tracked, last, mu, wire, seen, stream,
                   settingsLock, telegram>>

\* s.RUnlock(), before the record is stored, and the deferred s.RUnlock()
\* with which Get returns its record.
GetRUnlock(g) ==
    /\ task[g].pc \in {"runlock", "return"}
    /\ settingsLock' =
          [settingsLock EXCEPT
              !.readers = @ \ {g},
              !.misuse = @ \/ g \notin settingsLock.readers,
              !.got = IF task[g].pc = "return"
                      THEN [@ EXCEPT ![g] = task[g].job.rec] ELSE @]
    /\ task' = IF task[g].pc = "return"
               THEN Back(g)
               ELSE InGet(g, "lock", task[g].job.rec)
    /\ UNCHANGED <<signalStore, messageStore, editingUsers, userSettings,
                   exchange, monitors, tracked, last, mu, wire, seen, stream,
                   telegram>>

\* s.Lock() is called: from now on no new reader gets the mutex.
GetLock(g) ==
    /\ task[g].pc = "lock"
    /\ settingsLock' = [settingsLock EXCEPT !.waiting = @ \cup {g}]
    /\ task' = InGet(g, "locking", task[g].job.rec)
    /\ UNCHANGED <<signalStore, messageStore, editingUsers, userSettings,
                   exchange, monitors, tracked, last, mu, wire, seen, stream,
                   telegram>>

\* s.Lock() returns: no reader and no writer holds the mutex.
GetLocked(g) ==
    /\ task[g].pc = "locking"
    /\ settingsLock.readers = {}
    /\ settingsLock.writer = ""
    /\ settingsLock' = [settingsLock EXCEPT !.waiting = @ \ {g},
                                            !.writer = g]
    /\ task' = InGet(g, "store", task[g].job.rec)
    /\ UNCHANGED <<signalStore, messageStore, editingUsers, userSettings,
                   exchange, monitors, tracked, last, mu, wire, seen, stream,
                   telegram>>

\* s.settings[userID] = settings
GetStore(g) ==
    /\ task[g].pc = "store"
    /\ userSettings' = Put(userSettings, ChatID, DefaultSettings)
    /\ settingsLock' = [settingsLock EXCEPT !.kept = task[g].job.rec]
    /\ task' = InGet(g, "unlock", task[g].job.rec)
    /\ UNCHANGED <<signalStore, messageStore, editingUsers, exchange,
                   monitors, tracked, last, mu, wire, seen, stream,
                   telegram>>

\* s.Unlock()
GetUnlock(g) ==
    /\ task[g].pc = "unlock"
    /\ settingsLock' = [settingsLock EXCEPT
                           !.writer = "",
                           !.misuse = @ \/ settingsLock.writer # g]
    /\ task' = InGet(g, "rlock", task[g].job.rec)
    /\ UNCHANGED <<signalStore, messageStore, editingUsers, userSettings,
                   exchange, monitors, tracked, last, mu, wire, seen, stream,
                   telegram>>

\* s.RLock() again, for the deferred s.RUnlock().
GetRLockAgain(g) ==
    /\ task[g].pc = "rlock"
    /\ CanRLock
    /\ settingsLock' = [settingsLock EXCEPT !.readers = @ \cup {g}]
    /\ task' = InGet(g, "return", task[g].job.rec)
    /\ UNCHANGED <<signalStore, messageStore, editingUsers, userSettings,
                   exchange, monitors, tracked, last, mu, wire, seen, stream,
                   telegram>>

NextGet ==
    \E g \in Goroutines :
       \/ GetRLock(g)
       \/ GetLookup(g)
       \/ GetRUnlock(g)
       \/ GetLock(g)
       \/ GetLocked(g)
       \/ GetStore(g)
       \/ GetUnlock(g)
       \/ GetRLockAgain(g)

SpecGet == Init /\ [][NextGet]_vars

----------------------------------------------------------------------------
(* The Telegram listener: startTelegramListener, stopTelegramListener and  *)
(* initTelegramBot statement by statement.  The admin panel runs           *)
(* initTelegramBot on a goroutine of its own for every saved               *)
(* configuration; bot, updatesChan and listenerShutdown are package        *)
(* variables read and written without a lock.  A panic ends the process.   *)

\* Cap on the number of configurations saved in the admin panel.
MaxInits == 2

\* The update channel `ch` has been closed: StopReceivingUpdates was called
\* on the bot that made it.
ChanClosed(ch) == telegram.chans[ch] \in telegram.stopped

\* adminConfigHandler: go func() { initTelegramBot(&newConfig) ... }(), with
\* a token that NewBotAPI will accept or not.
AdminSave(tokenOk) ==
    /\ telegram.alive
    /\ Len(telegram.inits) < MaxInits
    /\ telegram' = [telegram EXCEPT
                      !.inits = Append(@, [pc |-> "check", tokenOk |-> tokenOk,
                                           wait |-> 0, ret |-> 0])]
    /\ UNCHANGED <<signalStore, messageStore, editingUsers, userSettings,
                   exchange, monitors, tracked, last, mu, task, wire, seen,
                   stream, settingsLock>>

\* initTelegramBot: if bot != nil
InitCheck(i) ==
    /\ telegram.alive
    /\ i \in DOMAIN telegram.inits
    /\ telegram.inits[i].pc = "check"
    /\ telegram' = [telegram EXCEPT
                      !.inits[i].pc = IF telegram.bot # 0 THEN "stop"
                                      ELSE "new"]
    /\ UNCHANGED <<signalStore, messageStore, editingUsers, userSettings,
                   exchange, monitors, tracked, last, mu, task, wire, seen,
                   stream, settingsLock>>

\* stopTelegramListener up to its receive from listenerShutdown: with no
\* update channel it returns, and initTelegramBot sets bot = nil; else
\* bot.StopReceivingUpdates(), which panics on a nil bot and on a bot that
\* was stopped before.
InitStop(i) ==
    /\ telegram.alive
    /\ i \in DOMAIN telegram.inits
    /\ telegram.inits[i].pc = "stop"
    /\ telegram' =
          IF telegram.updatesChan = 0
          THEN [telegram EXCEPT !.bot = 0, !.inits[i].pc = "new"]
          ELSE IF telegram.bot = 0 \/ telegram.bot \in telegram.stopped
          THEN [telegram EXCEPT !.alive = FALSE]
          ELSE [telegram EXCEPT
                  !.stopped = @ \cup {telegram.bot},
                  !.inits[i].pc = "wait",
                  !.inits[i].wait = telegram.listenerShutdown]
    /\ UNCHANGED <<signalStore, messageStore, editingUsers, userSettings,
                   exchange, monitors, tracked, last, mu, task, wire, seen,
                   stream, settingsLock>>

\* <-listenerShutdown returns once the channel is closed (never for a nil
\* channel); updatesChan = nil, listenerShutdown = nil, and back in
\* initTelegramBot bot = nil.
InitWaited(i) ==
    /\ telegram.alive
    /\ i \in DOMAIN telegram.inits
    /\ telegram.inits[i].pc = "wait"
    /\ telegram.inits[i].wait \in telegram.closed
    /\ telegram' = [telegram EXCEPT
                      !.updatesChan = 0, !.listenerShutdown = 0, !.bot = 0,
                      !.inits[i].pc = "new"]
    /\ UNCHANGED <<signalStore, messageStore, editingUsers, userSettings,
                   exchange, monitors, tracked, last, mu, task, wire, seen,
                   stream, settingsLock>>

\* bot, err = tgbotapi.NewBotAPI(config.TelegramBotToken)
InitNewBot(i) ==
    /\ telegram.alive
    /\ i \in DOMAIN telegram.inits
    /\ telegram.inits[i].pc = "new"
    /\ telegram' =
          IF telegram.inits[i].tokenOk
          THEN [telegram EXCEPT !.bots = @ + 1, !.bot = telegram.bots + 1,
                                !.inits[i].pc = "start"]
          ELSE [telegram EXCEPT !.bot = 0, !.inits[i].pc = "done"]
    /\ UNCHANGED <<signalStore, messageStore, editingUsers, userSettings,
                   exchange, monitors, tracked, last, mu, task, wire, seen,
                   stream, settingsLock>>

\* startTelegramListener: if updatesChan != nil { return }; initTelegramBot
\* then returns bot.
InitStartCheck(i) ==
    /\ telegram.alive
    /\ i \in DOMAIN telegram.inits
    /\ telegram.inits[i].pc = "start"
    /\ telegram' =
          IF telegram.updatesChan # 0
          THEN [telegram EXCEPT !.inits[i].pc = "publish",
                                !.inits[i].ret = telegram.bot]
          ELSE [telegram EXCEPT !.inits[i].pc = "listen"]
    /\ UNCHANGED <<signalStore, messageStore, editingUsers, userSettings,
                   exchange, monitors, tracked, last, mu, task, wire, seen,
                   stream, settingsLock>>

\* updatesChan = bot.GetUpdatesChan(u), which panics on a nil bot;
\* listenerShutdown = make(chan struct{}); go func() {...}();
\* initTelegramBot then returns bot.
InitListen(i) ==
    /\ telegram.alive
    /\ i \in DOMAIN telegram.inits
    /\ telegram.inits[i].pc = "listen"
    /\ telegram' =
          IF telegram.bot = 0
          THEN [telegram EXCEPT !.alive = FALSE]
          ELSE [telegram EXCEPT
                  !.chans = Append(@, telegram.bot),
                  !.updatesChan = Len(telegram.chans) + 1,
                  !.made = @ + 1,
                  !.listenerShutdown = telegram.made + 1,
                  !.loops = Append(@, [ch |-> 0, done |-> 0,
                                       state |-> "starting"]),
                  !.inits[i].pc = "publish",
                  !.inits[i].ret = telegram.bot]
    /\ UNCHANGED <<signalStore, messageStore, editingUsers, userSettings,
                   exchange, monitors, tracked, last, mu, task, wire, seen,
                   stream, settingsLock>>

\* adminConfigHandler: bot = botInstance
InitPublish(i) ==
    /\ telegram.alive
    /\ i \in DOMAIN telegram.inits
    /\ telegram.inits[i].pc = "publish"
    /\ telegram' = [telegram EXCEPT !.bot = telegram.inits[i].ret,
                                    !.inits[i].pc = "done"]
    /\ UNCHANGED <<signalStore, messageStore, editingUsers, userSettings,
                   exchange, monitors, tracked, last, mu, task, wire, seen,
                   stream, settingsLock>>

\* The listener goroutine starts: defer close(listenerShutdown) and
\* for update := range updatesChan take the channels the package variables
\* hold at that moment.
ListenerRun(l) ==
    /\ telegram.alive
    /\ l \in DOMAIN telegram.loops
    /\ telegram.loops[l].state = "starting"
    /\ telegram' = [telegram EXCEPT
                      !.loops[l] = [ch |-> telegram.updatesChan,
                                    done |-> telegram.listenerShutdown,
                                    state |-> "waiting"]]
    /\ UNCHANGED <<signalStore, messageStore, editingUsers, userSettings,
                   exchange, monitors, tracked, last, mu, task, wire, seen,
                   stream, settingsLock>>

\* The listener receives an update from its channel and calls
\* handleCallbackQuery.
UpdateTaken(l) ==
    /\ telegram.alive
    /\ l \in DOMAIN telegram.loops
    /\ telegram.loops[l].state = "waiting"
    /\ telegram.loops[l].ch # 0
    /\ ~ChanClosed(telegram.loops[l].ch)
    /\ telegram' = [telegram EXCEPT !.loops[l].state = "handling"]
    /\ UNCHANGED <<signalStore, messageStore, editingUsers, userSettings,
                   exchange, monitors, tracked, last, mu, task, wire, seen,
                   stream, settingsLock>>

\* The handler returns: here a "dismiss|id" callback.
HandlerReturns(l, signalID) ==
    /\ telegram.alive
    /\ l \in DOMAIN telegram.loops
    /\ telegram.loops[l].state = "handling"
    /\ LET h == dismissSignal(ChatID, signalID) IN
       /\ signalStore' = h.signals
       /\ last' = h.did
    /\ telegram' = [telegram EXCEPT !.loops[l].state = "waiting"]
    /\ UNCHANGED <<messageStore, editingUsers, userSettings, exchange,
                   monitors, tracked, mu, task, wire, seen, stream,
                   settingsLock>>

\* The update channel is closed: the range loop ends and the deferred
\* close(listenerShutdown) runs, which panics on a nil channel and on a
\* channel that is closed already.
ListenerExit(l) ==
    /\ telegram.alive
    /\ l \in DOMAIN telegram.loops
    /\ telegram.loops[l].state = "waiting"
    /\ telegram.loops[l].ch # 0
    /\ ChanClosed(telegram.loops[l].ch)
    /\ telegram' =
          IF telegram.loops[l].done = 0
             \/ telegram.loops[l].done \in telegram.closed
          THEN [telegram EXCEPT !.alive = FALSE]
          ELSE [telegram EXCEPT
                  !.closed = @ \cup {telegram.loops[l].done},
                  !.loops[l].state = "exited"]
    /\ UNCHANGED <<signalStore, messageStore, editingUsers, userSettings,
                   exchange, monitors, tracked, last, mu, task, wire, seen,
                   stream, settingsLock>>

ListenerInputs ==
    [rawIDs     |-> {"sig1"},
     types      |-> {"Buy"},
     sendOk     |-> {TRUE},
     dismissIDs |-> {"sig1"}]

NextListener ==
    \/ \E rawID \in ListenerInputs.rawIDs,
          signalType \in ListenerInputs.types,
          sendOk \in ListenerInputs.sendOk :
          telegram.alive /\ Webhook(rawID, signalType, sendOk)
    \/ \E tokenOk \in BOOLEAN : AdminSave(tokenOk)
    \/ \E i \in 1..MaxInits : InitCheck(i)
    \/ \E i \in 1..MaxInits : InitStop(i)
    \/ \E i \in 1..MaxInits : InitWaited(i)
    \/ \E i \in 1..MaxInits : InitNewBot(i)
    \/ \E i \in 1..MaxInits : InitStartCheck(i)
    \/ \E i \in 1..MaxInits : InitListen(i)
    \/ \E i \in 1..MaxInits : InitPublish(i)
    \/ \E l \in 1..MaxInits + 1 : ListenerRun(l)
    \/ \E l \in 1..MaxInits + 1 : UpdateTaken(l)
    \/ \E l \in 1..MaxInits + 1, id \in ListenerInputs.dismissIDs :
          HandlerReturns(l, id)
    \/ \E l \in 1..MaxInits + 1 : ListenerExit(l)

SpecListener == Init /\ [][NextListener]_vars

----------------------------------------------------------------------------
(* Properties *)

\* The positions of the orders among a sequence of exchange calls, and the
\* legs they serve.
Orders(calls) == {i \in 1..Len(calls) : calls[i].op = "createOrder"}
Legs(calls) == {calls[i].leg : i \in Orders(calls)}
ProtectiveLegs == {"tp1", "tp2", "tp3", "sl"}

\* The handler that ran last was confirmSignal, and it found its signal.
ConfirmRan ==
    last.event = "callback" /\ last.action = "conf" /\ last.found

\* The handler that ran last was confirmSignal, for an id it did not find.
ConfirmUnknown ==
    last.event = "callback" /\ last.action = "conf" /\ ~last.found

\* The values of a signal that an edit or a recalculation may change.
Targets(signal) ==
    << signal.EntryPrice, signal.TP1, signal.TP2, signal.TP3, signal.SL >>

\* C1: in every reachable state no signal is both confirmed and dismissed,
\* whatever confirm and dismiss callbacks have arrived for it.
C1_AtMostOneTerminal ==
    \A id \in DOMAIN signalStore :
        ~(signalStore[id].Confirmed /\ signalStore[id].Dismissed)

\* C2: once a signal is confirmed or dismissed, no step taken for the
\* operator (a callback or a text message) changes its entry price, its
\* TP1..TP3 or its SL.
C2_TerminalTargetsKept ==
    [][\A id \in DOMAIN signalStore :
          ((signalStore[id].Confirmed \/ signalStore[id].Dismissed)
             /\ last'.event \in {"callback", "message"})
          => /\ id \in DOMAIN signalStore'
             /\ Targets(signalStore'[id]) = Targets(signalStore[id])]_vars

\* C3: a confirm callback for a signal that has been dismissed makes no
\* exchange call: no price lookup, no margin or leverage change, no order.
C3_DismissedNeverExecutes ==
    (ConfirmRan /\ signalStore[last.id].Dismissed) => last.calls = << >>

\* C4: a confirm callback whose id is not in the signal store sends "Signal
\* not found.", makes no exchange call, leaves the signals, the message
\* registry, the edit sessions, the settings and the exchange as they were,
\* is acknowledged, and the program can take its next step afterwards.
C4_UnknownConfirmRejected ==
    /\ [][(/\ last'.event = "callback"
           /\ last'.action = "conf"
           /\ last'.id \notin DOMAIN signalStore)
          => /\ last'.msgs = << Text("Signal not found.") >>
             /\ last'.calls = << >>
             /\ ~last'.monitor
             /\ last'.acked
             /\ UNCHANGED <<signalStore, messageStore, editingUsers,
                            userSettings, exchange, monitors, tracked,
                            mu, task, wire, seen, stream, settingsLock,
                   telegram>>]_vars
    /\ [](ConfirmUnknown => ENABLED Next)

\* C4's case: the unknown id "ghost" confirmed while a signal is stored and
\* an edit session is open.
C4_Witness ==
    /\ ConfirmUnknown
    /\ last.id = "ghost"
    /\ "sig1" \in DOMAIN signalStore
    /\ ChatID \in DOMAIN editingUsers
    /\ ChatID \in DOMAIN userSettings

\* C5: in a confirmation, a failed step is the last step: after a rejected
\* leverage change or a failed quantity calculation no order is placed;
\* after a rejected entry order no protective order is placed; after a
\* rejected protective order no further order is placed; and in none of
\* these cases a fill monitor is started.
C5_FailureAbortsLaterSteps ==
    ConfirmRan =>
      LET calls == last.calls IN
      /\ (\E i \in 1..Len(calls) :
             calls[i].op = "changeLeverage" /\ ~calls[i].ok)
         => (Orders(calls) = {} /\ ~last.monitor)
      /\ (\/ last.err = "quantity"
          \/ \E i \in 1..Len(calls) :
                calls[i].op = "exchangeInfo" /\ ~calls[i].ok)
         => (Orders(calls) = {} /\ ~last.monitor)
      /\ (\E i \in Orders(calls) : calls[i].leg = "entry" /\ ~calls[i].ok)
         => (Legs(calls) = {"entry"} /\ ~last.monitor)
      /\ \A i \in Orders(calls) :
            (calls[i].leg \in ProtectiveLegs /\ ~calls[i].ok)
            => (i = Len(calls) /\ ~last.monitor)

\* C5's case: the second take-profit order is rejected after the entry and
\* the first take-profit order were placed, with a stop loss still to place.
C5_Witness ==
    /\ ConfirmRan
    /\ userSettings[ChatID].UseSL
    /\ Legs(last.calls) = {"entry", "tp1", "tp2"}
    /\ ~last.calls[Len(last.calls)].ok
    /\ last.calls[Len(last.calls)].leg = "tp2"
    /\ last.sent.SL > 0

\* C6: when the exchange rejects the margin-type change, orders are placed
\* only if the margin type in effect at the exchange is the one the
\* settings ask for.
C6_RejectedMarginModeChecked ==
    (/\ ConfirmRan
     /\ \E i \in 1..Len(last.calls) :
           last.calls[i].op = "changeMarginType" /\ ~last.calls[i].ok
     /\ Orders(last.calls) # {})
    => exchange.marginType = MarginTypeOf(userSettings[ChatID].MarginMode)

\* C7: in Market mode with the tolerance check enabled, whenever the price
\* the exchange reports deviates from the (positive) entry price by more
\* than the tolerance fraction, the confirmation ends with the price-drift
\* error right after the price lookup: no order of any kind is placed.
C7_DriftAborts ==
    (/\ ConfirmRan
     /\ userSettings[ChatID].TradingMode = "Market"
     /\ userSettings[ChatID].EnableToleranceInMarketMode
     /\ Len(last.calls) >= 1
     /\ last.calls[1].op = "getPrice"
     /\ last.calls[1].ok
     /\ signalStore[last.id].EntryPrice > 0
     /\ Abs(last.calls[1].value - signalStore[last.id].EntryPrice)
          > MulDiv10000(signalStore[last.id].EntryPrice,
                        userSettings[ChatID].MarketPriceTolerance))
    => /\ last.err = "drift"
       /\ Len(last.calls) = 1
       /\ ~last.monitor

\* C7's case: Market mode, check enabled, entry 100 and a reported price of
\* 105, a deviation of 5 %.
C7_Witness ==
    /\ ConfirmRan
    /\ userSettings[ChatID].TradingMode = "Market"
    /\ userSettings[ChatID].EnableToleranceInMarketMode
    /\ signalStore[last.id].EntryPrice = Price(100)
    /\ Len(last.calls) = 1
    /\ last.calls[1].op = "getPrice"
    /\ last.calls[1].ok
    /\ last.calls[1].value = Price(105)
    /\ last.err = "drift"

\* C8: after an accepted entry order, in either trading mode, if a target
\* of the executed signal is non-zero, or the stop loss is enabled and
\* non-zero, a protective order is sent on the side opposite to the entry.
C8_ProtectiveAfterEntry ==
    ConfirmRan =>
      \A i \in Orders(last.calls) :
         (/\ last.calls[i].leg = "entry"
          /\ last.calls[i].ok
          /\ \/ last.sent.TP1 # 0
             \/ last.sent.TP2 # 0
             \/ last.sent.TP3 # 0
             \/ (userSettings[ChatID].UseSL /\ last.sent.SL # 0))
         => \E j \in Orders(last.calls) :
               /\ last.calls[j].leg \in ProtectiveLegs
               /\ last.calls[j].side = invertSide(last.calls[i].side)

\* C9: in manual mode no take-profit order is sent for a level that the
\* settings used at confirmation have disabled.
C9_DisabledLevelNotSent ==
    (ConfirmRan /\ ~userSettings[ChatID].AutoCalculateTPs)
    => /\ ~userSettings[ChatID].TP2Enabled => "tp2" \notin Legs(last.calls)
       /\ ~userSettings[ChatID].TP3Enabled => "tp3" \notin Legs(last.calls)

\* The stored signal's value for a protective leg.
StoredTarget(signal, leg) ==
    CASE leg = "tp1" -> signal.TP1
      [] leg = "tp2" -> signal.TP2
      [] leg = "tp3" -> signal.TP3
      [] leg = "sl"  -> signal.SL

\* C10: with dynamic recalculation disabled, every protective order sent on
\* confirm carries the stored signal's value for its leg (to the four
\* decimals an order's price is written with).
C10_StoredTargetsSent ==
    (ConfirmRan /\ ~userSettings[ChatID].DynamicCalculationEnabled)
    => \A i \in Orders(last.calls) :
          last.calls[i].leg \in ProtectiveLegs
          => last.calls[i].value
               = Format4(StoredTarget(signalStore[last.id],
                                      last.calls[i].leg))


\* The calls on the wire made inside the execute call `run` of goroutine g.
InExecute(i, g, run) ==
    /\ wire[i].inExecute
    /\ wire[i].by = g
    /\ wire[i].run = run

\* C11: the orchestrator's lock is held for one whole execute call, so the
\* margin, leverage and order calls of two execute calls never interleave:
\* between two calls of one execute call, no call of another one is made.
C11_ExecutesNeverInterleave ==
    \A i \in 1..Len(wire), k \in 1..Len(wire) :
        i < k /\ wire[i].inExecute /\ InExecute(k, wire[i].by, wire[i].run)
        => \A j \in i..k :
              wire[j].inExecute => InExecute(j, wire[i].by, wire[i].run)

\* The second caller waits for the lock while the update loop's execute
\* call, which holds it, is between two of its exchange calls.
C11_Witness ==
    /\ task["second"].pc = "lock"
    /\ task["listener"].pc = "calls"
    /\ mu = "listener"
    /\ \E i \in 1..Len(wire) : InExecute(i, "listener", 0)


\* C12: confirming a signal never blocks the update loop: while an exchange
\* call of the confirmation is pending, the loop can take the next update.
C12_LoopNotBlocked ==
    task["listener"].pc \in {"price", "calls"}
    => ENABLED LoopDispatch(ExecuteInputs)


\* C13: with one settings update under way, a reader of the operator's
\* settings holds the complete record of before the update or the complete
\* record of after it, never a mix of the two.
C13_ReadersSeeWholeRecord ==
    \A i \in 1..Len(seen) : seen[i].rec \in {seen[i].pre, seen[i].post}


\* The operator's text is handled as the new value of `settingName`.
SettingSent(settingName, text) ==
    /\ ChatID \in DOMAIN editingUsers
    /\ editingUsers[ChatID].Field = ""
    /\ editingUsers[ChatID].SettingName = settingName
    /\ \E sendOk \in BOOLEAN : MessageWhileEditing(ChatID, text, sendOk)

\* TP2 and TP3 have weight 0 and are disabled.
OnlyTP1(settings) ==
    /\ settings.TP2ClosePct = 0
    /\ settings.TP3ClosePct = 0
    /\ ~settings.TP2Enabled
    /\ ~settings.TP3Enabled

\* C14: after any sequence of close-weight updates the three weights sum
\* to at most 100, and whenever TP1's weight is set to 100 the weights of
\* TP2 and TP3 are 0 and both are disabled.
C14_CloseWeightsBounded ==
    /\ [](\A u \in DOMAIN userSettings :
             /\ FLe(FAdd(FAdd(userSettings[u].TP1ClosePct,
                               userSettings[u].TP2ClosePct),
                          userSettings[u].TP3ClosePct), 10000)
             /\ userSettings[u].TP1ClosePct = 10000
                => OnlyTP1(userSettings[u]))
    /\ [][SettingSent("TP1ClosePct", "100")
          => /\ userSettings'[ChatID].TP1ClosePct = 10000
             /\ OnlyTP1(userSettings'[ChatID])]_vars

\* C15: a TP2 weight that brings TP1 + TP2 beyond 100 is truncated to
\* 100 - TP1 and TP2 stays enabled, TP3 gets weight 0 and is disabled, and
\* TP1's weight is unchanged.
C15_TP2Truncated ==
    [][\A text \in WeightInputs.texts :
          /\ SettingSent("TP2ClosePct", text)
          /\ parseFloatRange(text, 0, 100).ok
          /\ FLt(UserSettingsGet(userSettings, ChatID).TP1ClosePct, 10000)
          /\ FGt(FAdd(UserSettingsGet(userSettings, ChatID).TP1ClosePct,
                      Hundredths(ParseFloat(text).val)), 10000)
          => /\ userSettings'[ChatID].TP1ClosePct
                  = UserSettingsGet(userSettings, ChatID).TP1ClosePct
             /\ userSettings'[ChatID].TP2ClosePct
                  = 10000 - UserSettingsGet(userSettings, ChatID).TP1ClosePct
             /\ userSettings'[ChatID].TP2Enabled
             /\ userSettings'[ChatID].TP3ClosePct = 0
             /\ ~userSettings'[ChatID].TP3Enabled]_vars

\* TP1 = 70, then TP2 = 50: the weights are 70 / 30 / 0.
C15_Witness ==
    /\ last.action = "setting"
    /\ last.id = "TP2ClosePct"
    /\ userSettings[ChatID].TP1ClosePct = 7000
    /\ userSettings[ChatID].TP2ClosePct = 3000
    /\ userSettings[ChatID].TP2Enabled
    /\ userSettings[ChatID].TP3ClosePct = 0
    /\ ~userSettings[ChatID].TP3Enabled


\* The operator has a pending edit target: a signal field or a setting.
PendingTarget ==
    /\ ChatID \in DOMAIN editingUsers
    /\ \/ editingUsers[ChatID].Field # ""
       \/ editingUsers[ChatID].SettingName # ""

\* The operator's text `text` is handled with an edit session open.
TextWhileEditing(text) ==
    \E sendOk \in BOOLEAN : MessageWhileEditing(ChatID, text, sendOk)

\* last.msgs holds the text `t`.
Told(did, t) == \E i \in 1..Len(did.msgs) : did.msgs[i] = Text(t)

\* C16: with a pending edit target, the operator's next text is consumed by
\* that target and the session is cleared afterwards whatever the text is;
\* a text that follows is handled without a session and edits nothing.
C16_NextTextConsumed ==
    [][/\ \A text \in LifecycleInputs.texts :
             PendingTarget /\ TextWhileEditing(text)
             => /\ ChatID \notin DOMAIN editingUsers'
                /\ last'.event = "message"
                /\ \/ /\ editingUsers[ChatID].Field # ""
                      /\ last'.action = "field"
                      /\ last'.id = editingUsers[ChatID].SignalID
                   \/ /\ editingUsers[ChatID].Field = ""
                      /\ last'.action = "setting"
                      /\ last'.id = editingUsers[ChatID].SettingName
       /\ \A text \in LifecycleInputs.idleTexts :
             MessageIdle(ChatID, text)
             => /\ ChatID \notin DOMAIN editingUsers
                /\ last'.action = ""
                /\ UNCHANGED <<signalStore, editingUsers>>]_vars

\* A text that is no number was consumed by a pending entry-price edit, and
\* the session is gone.
C16_Witness ==
    /\ last.event = "message"
    /\ last.action = "field"
    /\ Told(last, "Invalid value for Entry Price.")
    /\ ChatID \notin DOMAIN editingUsers

\* C17: a text that is no valid number, sent for a pending signal-field
\* edit, is answered by a visible error and leaves the edit session in
\* place, so that the next text applies to the same signal and field.
C17_InvalidKeepsSession ==
    [][\A text \in LifecycleInputs.texts :
          /\ ChatID \in DOMAIN editingUsers
          /\ editingUsers[ChatID].Field = "Entry Price"
          /\ editingUsers[ChatID].SignalID \in DOMAIN signalStore
          /\ ~ParseFloat(text).ok
          /\ TextWhileEditing(text)
          => /\ Told(last', "Invalid value for Entry Price.")
             /\ ChatID \in DOMAIN editingUsers'
             /\ editingUsers'[ChatID] = editingUsers[ChatID]]_vars

\* The field of the signal record behind a button of the edit menu.
FieldOf(fieldName) ==
    CASE fieldName = "Entry Price" -> "EntryPrice"
      [] fieldName = "TP1" -> "TP1"
      [] fieldName = "TP2" -> "TP2"
      [] fieldName = "TP3" -> "TP3"
      [] fieldName = "SL" -> "SL"

\* C18: for each field the edit menu offers for text entry (Entry Price,
\* TP1, TP2, TP3, SL), a valid number sent while the field's session is
\* open sets that field of the signal to the parsed value.
C18_ValidTextSetsField ==
    [][\A text \in LifecycleInputs.texts :
          /\ ChatID \in DOMAIN editingUsers
          /\ editingUsers[ChatID].Field
               \in {"Entry Price", "TP1", "TP2", "TP3", "SL"}
          /\ editingUsers[ChatID].SignalID \in DOMAIN signalStore
          /\ ParseFloat(text).ok
          /\ TextWhileEditing(text)
          => signalStore'[editingUsers[ChatID].SignalID]
                [FieldOf(editingUsers[ChatID].Field)]
               = ParseFloat(text).val]_vars


\* The handler that ran last accepted a new value of a setting, and
\* recalculated the unconfirmed signals with the stored settings.
SettingAccepted ==
    /\ last.event = "message"
    /\ last.action = "setting"
    /\ Told(last, "has been updated.")
    /\ userSettings[ChatID].DynamicCalculationEnabled

\* The signals the recalculation applies to.
Recalculated ==
    {k \in Unconfirmed(signalStore) : signalStore[k].EntryPrice > 0}

\* C19: for every entry price > 0 and every percentage the settings handler
\* accepts, manual recalculation puts TP1, TP2 and TP3 strictly above the
\* entry and (stop-loss enabled) SL strictly below it for a Buy signal, and
\* the other way round for a Sell signal.
C19_ManualTargetsStrictlyBeyondEntry ==
    SettingAccepted /\ ~userSettings[ChatID].AutoCalculateTPs
    => \A k \in Recalculated :
          LET signal == signalStore[k]
              entry == signal.EntryPrice
          IN /\ signal.SignalType = "Buy"
                => /\ signal.TP1 > entry
                   /\ signal.TP2 > entry
                   /\ signal.TP3 > entry
                   /\ userSettings[ChatID].UseSL => signal.SL < entry
             /\ signal.SignalType = "Sell"
                => /\ signal.TP1 < entry
                   /\ signal.TP2 < entry
                   /\ signal.TP3 < entry
                   /\ userSettings[ChatID].UseSL => signal.SL > entry

\* C20: auto mode recalculation leaves the signal with TP2 = 0 and TP3 = 0,
\* whatever they held before.
C20_AutoClearsTP2AndTP3 ==
    SettingAccepted /\ userSettings[ChatID].AutoCalculateTPs
    => \A k \in Recalculated :
          /\ signalStore[k].TP2 = 0
          /\ signalStore[k].TP3 = 0


\* TP1..TP3 and SL of a signal.
Levels(signal) == << signal.TP1, signal.TP2, signal.TP3, signal.SL >>

\* C21: with dynamic recalculation disabled, a call of the recalculation
\* (alert ingestion, field edit, reference-price substitution, bulk
\* settings change) leaves TP1, TP2, TP3 and SL as they were before it: a
\* stored signal keeps its levels, and an alert is stored with its own.
C21_DisabledRecalculationKeepsLevels ==
    [][~UserSettingsGet(userSettings, ChatID).DynamicCalculationEnabled
       => /\ last'.event # "alert"
             => \A id \in DOMAIN signalStore :
                   /\ id \in DOMAIN signalStore'
                   /\ Levels(signalStore'[id]) = Levels(signalStore[id])
          /\ last'.event = "alert" /\ last'.id \in DOMAIN signalStore'
             => \E signalType \in FrameInputs.types :
                   Levels(signalStore'[last'.id])
                     = Levels(Alert(last'.id, signalType))]_vars

\* With dynamic recalculation disabled a TP percentage was changed, and the
\* pending signal does not have the TP1 of the new percentage.
C21_Witness ==
    /\ last.event = "message"
    /\ last.action = "setting"
    /\ last.id = "TP1Percentage"
    /\ Told(last, "has been updated.")
    /\ ~userSettings[ChatID].DynamicCalculationEnabled
    /\ \E k \in Recalculated :
          signalStore[k].TP1 # Above(signalStore[k].EntryPrice,
                                     userSettings[ChatID].TP1Percentage)


\* The step is handleNewSettingValue accepting `text` for the TP1
\* percentage.
PercentageSent(text) ==
    /\ parseFloatRange(text, 0, 1000).ok
    /\ SettingSent("TP1Percentage", text)

C23_BulkSkipsTerminalSignals ==
    [][\A text \in FrameInputs.texts :
          PercentageSent(text)
          => \A id \in DOMAIN signalStore :
                signalStore[id].Confirmed \/ signalStore[id].Dismissed
                => /\ id \in DOMAIN signalStore'
                   /\ signalStore'[id] = signalStore[id]]_vars

\* A TP1 percentage was set with dynamic calculation on while the signal
\* was confirmed, and the signal does not have the TP1 of the new
\* percentage.
C23_Witness ==
    /\ SettingAccepted
    /\ last.id = "TP1Percentage"
    /\ \E id \in DOMAIN signalStore :
          /\ signalStore[id].Confirmed
          /\ ~signalStore[id].Dismissed
          /\ signalStore[id].EntryPrice > 0
          /\ signalStore[id].TP1 # Above(signalStore[id].EntryPrice,
                                         userSettings[ChatID].TP1Percentage)


\* C24: at any time at most one fill monitor is running for the operator,
\* however many trades the operator has executed.
C24_AtMostOneMonitor == stream.running <= 1

\* C25: for each order reference the operator gets at most one "filled"
\* message, even if the feed delivers the FILLED event more than once or
\* several trades were executed.
C25_AtMostOneFilledNotice ==
    \A order \in DOMAIN stream.filled : stream.filled[order] <= 1

\* C26: a fill-monitor failure never ends the process: after the user data
\* stream failed to start, the websocket could not be dialled, or the
\* connection was lost, the update loop still handles its updates.
C26_MonitorFailureKeepsLoop ==
    /\ last.event = "monitor"
    /\ last.action \in {"startFailed", "dialFailed", "lost"}
    => ENABLED EventLoop(MonitorInputs)


\* C28: every callback query the update loop receives is acknowledged,
\* whatever its outcome: also one with empty data, with fewer than two
\* parts, a field or option action without its third part, an unknown
\* action or an unknown signal id.  (The acknowledgement is the last
\* statement of the handler: a callback not acknowledged when its handler
\* returns is never acknowledged.)
C28_EveryCallbackAcknowledged ==
    last.event = "callback" => last.acked


\* C29: every signal is stored under a non-empty identifier, also when the
\* identifier of the alert sanitizes to the empty string.
C29_StoredUnderNonEmptyID ==
    /\ "" \notin DOMAIN signalStore
    /\ "" \notin DOMAIN messageStore


\* The text is one the validation of `settingName` has to reject: no
\* number, a leverage outside 1..125, a percentage or amount out of range,
\* a tolerance in Market mode, a TP2 or TP3 close weight when the earlier
\* weights total 100.
MustReject(settings, settingName, text) ==
    LET value == ParseFloat(text).val IN
    IF settingName = "Leverage"
    THEN ~Atoi(text).ok \/ Atoi(text).val \notin 1..125
    ELSE \/ ~ParseFloat(text).ok
         \/ value < 0
         \/ /\ settingName \in CloseWeights \cup {"MarketPriceTolerance"}
            /\ value > Price(100)
         \/ settingName = "TP1Percentage" /\ value > Price(1000)
         \/ /\ settingName = "MarketPriceTolerance"
            /\ settings.TradingMode = "Market"
         \/ /\ settingName = "TP2ClosePct"
            /\ settings.TP1ClosePct >= 10000
         \/ /\ settingName = "TP3ClosePct"
            /\ settings.TP1ClosePct + settings.TP2ClosePct >= 10000

\* C30: a settings input rejected by validation leaves the operator's
\* stored settings and every signal unchanged.
C30_RejectedInputChangesNothing ==
    [][/\ \A text \in ValidationInputs.texts,
             settingName \in ValidationInputs.options :
             /\ MustReject(UserSettingsGet(userSettings, ChatID),
                           settingName, text)
             /\ SettingSent(settingName, text)
             => /\ userSettings'[ChatID]
                     = UserSettingsGet(userSettings, ChatID)
                /\ signalStore' = signalStore
                /\ ~Told(last', "has been updated.")
                /\ last'.msgs # << >>
       /\ \A c \in ValidationInputs.choices :
             /\ c[2] \notin {"Market", "Limit"}
             /\ CallbackChangeOption(ChatID, c[1], c[2])
             => /\ userSettings'[ChatID]
                     = UserSettingsGet(userSettings, ChatID)
                /\ signalStore' = signalStore]_vars

\* With a signal pending and settings that differ from the defaults, an
\* out-of-range close weight was rejected.
C30_Witness ==
    /\ last.event = "message"
    /\ last.action = "setting"
    /\ last.id = "TP1ClosePct"
    /\ Told(last, "Invalid percentage.")
    /\ signalStore # EmptyMap
    /\ userSettings[ChatID] # DefaultSettings


\* C27: every execute call eventually releases the orchestrator lock, even
\* if an exchange call never receives a response, so that a later execute
\* call is not blocked forever by a stalled one.
C27_LockEventuallyReleased ==
    \A g \in {"listener", "second"} : (mu = g) ~> (mu = "")

\* C32: when a signal's chat message is re-rendered by an edit (a new text
\* value applied, or the high, low or midpoint price substituted), the
\* message carries the action keyboard only if the signal is still pending:
\* the message of a confirmed or dismissed signal is never given the
\* keyboard again.
C32_KeyboardOnlyWhilePending ==
    (/\ last.action = "field"
     /\ last.id \in DOMAIN signalStore
     /\ \/ signalStore[last.id].Confirmed
        \/ signalStore[last.id].Dismissed)
    => \A i \in 1..Len(last.msgs) : last.msgs[i] # Rendered(last.id, TRUE)

\* C34: a confirm callback for a signal that is already confirmed (a double
\* tap, a stale button, or a keyboard attached again by a later edit) makes
\* no exchange call, so each signal results in at most one execute call.
C34_SecondConfirmMakesNoCall ==
    [][\A id \in DOMAIN signalStore :
          (/\ signalStore[id].Confirmed
           /\ last'.event = "callback"
           /\ last'.action = "conf"
           /\ last'.id = id
           /\ \E o \in LifecycleInputs.outcomes :
                 CallbackConfirm(ChatID, id, o))
          => last'.calls = << >>]_vars

C36_CloseWeightsSumTo100 ==
    /\ [](\A u \in DOMAIN userSettings :
             FAdd(FAdd(userSettings[u].TP1ClosePct,
                       userSettings[u].TP2ClosePct),
                  userSettings[u].TP3ClosePct) = 10000)
    /\ [][\A text \in WeightInputs.texts :
             /\ SettingSent("TP3ClosePct", text)
             /\ Told(last', "has been updated.")
             => userSettings'[ChatID].TP3ClosePct
                  = FSub(FSub(10000,
                        UserSettingsGet(userSettings, ChatID).TP1ClosePct),
                        UserSettingsGet(userSettings, ChatID).TP2ClosePct)]_vars

C38_RecordIDIsItsKey ==
    /\ \A k \in DOMAIN signalStore : signalStore[k].SignalID = k
    /\ (/\ last.event = "message"
        /\ last.action = "setting"
        /\ Told(last, "has been updated."))
       => \A k \in Unconfirmed(signalStore) \cap DOMAIN messageStore :
             \E i \in 1..Len(last.msgs) : last.msgs[i] = Rendered(k, TRUE)

\* C33: an operator's session holds one pending target or none: no stored
\* session names both a signal field and a setting, and a prompt for a new
\* target stores a session that names this target only, whatever session
\* was stored before.
C33_OneTargetPerSession ==
    /\ [](\A c \in DOMAIN editingUsers :
             ~(editingUsers[c].Field # "" /\ editingUsers[c].SettingName # ""))
    /\ [][/\ \A id \in LifecycleInputs.editIDs, f \in LifecycleInputs.fields :
                (/\ CallbackField(ChatID, id, f)
                 /\ id \in DOMAIN signalStore
                 /\ f \notin {"High Price", "Low Price", "Midpoint"})
                => editingUsers'
                     = Put(EmptyMap, ChatID,
                           [SignalID |-> id, Field |-> f, SettingName |-> ""])
          /\ \A option \in LifecycleInputs.options \cap PromptOptions :
                CallbackSetOption(ChatID, option)
                => editingUsers'
                     = Put(EmptyMap, ChatID,
                           [SignalID |-> "", Field |-> "",
                            SettingName |-> option])]_vars

\* The operator was prompted for TP1 of signal sig1: the session names this
\* field and no setting.
C33_Witness ==
    /\ last.event = "callback"
    /\ last.action = "field"
    /\ last.id = "sig1"
    /\ ChatID \in DOMAIN editingUsers
    /\ editingUsers[ChatID]
         = [SignalID |-> "sig1", Field |-> "TP1", SettingName |-> ""]

\* The goroutines that have returned from Get.
Returned == {g \in Goroutines : settingsLock.got[g] # ""}

\* C39: concurrent calls of Get for an operator with no stored settings
\* return the same record, which is the record kept in the store, and every
\* Get returns with the store's lock released: no read or write lock is
\* left held, and none is released that was not held.
C39_ConcurrentGetsShareTheRecord ==
    /\ \A g \in Returned : settingsLock.got[g] = settingsLock.kept
    /\ ~settingsLock.misuse
    /\ (\A g \in Goroutines : task[g].pc = "idle")
       => /\ settingsLock.readers = {}
          /\ settingsLock.writer = ""
          /\ settingsLock.waiting = {}

\* The listener goroutines that are inside a chat-event handler.
Handling ==
    {l \in 1..Len(telegram.loops) : telegram.loops[l].state = "handling"}

\* C31: at no time are two chat-event handlers executing concurrently,
\* whatever listener starts, stops and bot re-initialisations took place,
\* re-initialisations launched from the admin panel while the listener runs
\* included; so the edits of a signal are applied in the order their chat
\* events were received.
C31_OneHandlerAtATime == Cardinality(Handling) <= 1

====
